---- MODULE Spec2Model ----
(***************************************************************************)
(* Knowledge-base provisioning and ingestion workflow of the Bedrock agent *)
(* build pipeline (model_build/source_scripts/knowledge_base/main.py).     *)
(* Each orchestrator run is a sequential process whose steps are its       *)
(* remote calls; runs for the same agent name share the remote resources   *)
(* (knowledge base, data sources, vector bucket and index, OpenSearch      *)
(* Serverless collection) and interleave at those calls.                   *)
(***************************************************************************)
EXTENDS Integers, Sequences, FiniteSets, TLC

\* ------------------------------------------------------------------------
\* Bounds of the model and constants of the program
\* ------------------------------------------------------------------------

\* largest --ingestion-timeout (minutes) a run is started with
MaxTimeoutMinutes == 1

\* wait_for_ingestion_job: max_attempts = timeout_minutes * 6
PollsPerMinute == 6

\* iterations of the wait loop of create_knowledge_base and of
\* create_knowledge_base_with_opensearch (range(30) in the source)
KbPollAttempts == 2

\* iterations of the wait loop of ensure_opensearch_serverless_collection
\* (range(30) in the source)
CollectionPollAttempts == 2

\* the orchestrator runs that race on the resources of one agent name
Runs == {"run1", "run2"}

\* ------------------------------------------------------------------------
\* Exceptions: a type, the service error code of a ClientError, and str(e)
\* as a sequence of tokens
\* ------------------------------------------------------------------------

NoError == [type |-> "none", code |-> "none", msg |-> <<>>]

\* botocore.exceptions.ClientError with the service's error code; str(e) names the code
ClientError(code) == [type |-> "ClientError", code |-> code, msg |-> <<code>>]

\* an exception that is no ClientError (connection failure, KeyError, ...)
OtherError == [type |-> "Exception", code |-> "none", msg |-> <<"EndpointConnectionError">>]

\* raise Exception(f"...") with the given text
PlainException(msg) == [type |-> "Exception", code |-> "none", msg |-> msg]

\* raise TimeoutError(f"...")
TimeoutErrorOf(msg) == [type |-> "TimeoutError", code |-> "none", msg |-> msg]

\* str(e)
Str(e) == e.msg

\* 'token' in str(e)
InStr(token, e) == \E i \in 1..Len(Str(e)) : Str(e)[i] = token

\* s occurs in t as a contiguous block
Embeds(t, s) ==
    \E i \in 0..(Len(t) - Len(s)) : \A j \in 1..Len(s) : t[i + j] = s[j]

\* ------------------------------------------------------------------------
\* State
\* ------------------------------------------------------------------------

VARIABLES
    pc,            \* position of each run in main()
    args,          \* parsed command line of each run
    out,           \* the output dict of each run
    attempt,       \* loop variable of the poll loop a run is in
    index_exists,  \* local of ensure_s3_vectors_storage
    s3v_error,     \* exception caught by the primary-backend handler of main
    oss_error,     \* exception caught by the fallback handler of main
    raised,        \* exception that escaped main (NoError while none has)
    last_status,   \* status of the last get_ingestion_job a finished wait read
    written,       \* kb_output.json of each run: <<>> or <<the record>>
    calls,         \* number of calls of the counted client operations of a run
    kb,            \* the knowledge base named {agent}-kb at the service
    dataSources,   \* data sources of that knowledge base, in listing order
    bucket,        \* the vector bucket exists
    index,         \* the vector index: "none", "pre" (older than the runs) or its creator
    collection,    \* status of the OpenSearch Serverless collection
    policies,      \* security and access policies that exist
    osIndex,       \* the OpenSearch index exists
    associated,    \* the knowledge base is associated to the agent
    w_loop,        \* the function whose wait loop is run on its own
    w_timeout,     \* timeout_minutes of the call of sync_documents_to_kb
    w_pc,          \* "unused", "call", "loop", "returned" or "raised"
    statuses_read, \* the statuses the loop has read, in order
    sleeps,        \* number of time.sleep(10) calls
    started,       \* number of start_ingestion_job calls
    wait_error,    \* the exception the function raised (NoError while none)
    c_pc,          \* chunking: position in main ("unused" outside ChunkingSpec)
    c_argv,        \* chunking: --max-tokens / --overlap-percentage as given
    c_args,        \* chunking: args.max_tokens / args.overlap_percentage
    c_site,        \* chunking: the branch of main the run takes
    c_request,     \* chunking: chunkingConfiguration of the create_data_source requests
    params,        \* pipeline: the parameters of the execution
    steps,         \* pipeline: status of every step
    finished,      \* pipeline: the steps that ended, in order
    evaluation,    \* pipeline: metrics of evaluation.json
    kb_job,        \* pipeline: what the CreateKnowledgeBase job was given and did
    approval,      \* deployment: ModelApprovalStatus of every model package
    bus,           \* deployment: events on the default event bus
    invocations,   \* deployment: events the Lambda was invoked with
    aliases,       \* deployment: the agent aliases of the target environment
    responses,     \* deployment: what the handler returned, per invocation
    p_pc,          \* prepare: position in main of prepare_agent/main.py
    p_output,      \* prepare: the output dict
    p_reads,       \* prepare: agentStatus values the wait loop read
    p_alias,       \* prepare: the staging alias at the service
    p_file,        \* prepare: prepare_output.json
    p_exit,        \* prepare: exit code of the process
    ad_pc,         \* AgentDeployer: position in the method that runs
    ad_versions,   \* AgentDeployer: the listing list_agent_versions returned
    ad_latest,     \* AgentDeployer: what get_latest_version returned
    ad_source,     \* AgentDeployer: what get_alias returned for the source alias
    ad_version,    \* AgentDeployer: agent_version of deploy
    ad_requests,   \* AgentDeployer: the create/update alias requests issued
    ad_reads,      \* AgentDeployer: what the lookups of the wait loop returned
    ad_status,     \* AgentDeployer: local status of wait_for_alias_ready
    ad_ready,      \* AgentDeployer: what wait_for_alias_ready returned
    ad_error,      \* AgentDeployer: the exception that escaped the method
    ad_return,     \* AgentDeployer: what deploy returned
    e_pc,          \* evaluate: position in run_evaluation
    test_cases,    \* evaluate: the test cases loaded
    e_i,           \* evaluate: number of test cases processed
    results,       \* evaluate: the results dict of run_evaluation
    g_pc,          \* action groups: position in main
    g_args,        \* action groups: the command line
    g_calls,       \* action groups: the AWS calls issued, in order
    g_output,      \* action groups: the output dict
    g_file,        \* action groups: actions_output.json
    g_exit,        \* action groups: exit code of the process
    h_pc,          \* Lambda: position in handler
    h_event,       \* Lambda: the event of the invocation
    h_metadata,    \* Lambda: CustomerMetadataProperties of the model package
    h_environment, \* Lambda: ENVIRONMENT of the function
    h_staging,     \* Lambda: what get_agent_alias returned for the staging alias
    h_calls,       \* Lambda: the Bedrock create/update requests issued
    h_version,     \* Lambda: agent_version of handler
    h_response     \* Lambda: what handler returned

vars == <<pc, args, out, attempt, index_exists, s3v_error, oss_error, raised, last_status,
          written, calls, kb, dataSources, bucket, index, collection,
          policies, osIndex, associated, w_loop, w_timeout, w_pc,
          statuses_read, sleeps, started, wait_error,
          c_pc, c_argv, c_args, c_site, c_request,
          params, steps, finished, evaluation, kb_job,
          approval, bus, invocations, aliases, responses,
          p_pc, p_output, p_reads, p_alias, p_file, p_exit,
          ad_pc, ad_versions, ad_latest, ad_source, ad_version, ad_requests,
          ad_reads, ad_status, ad_ready, ad_error, ad_return,
          e_pc, test_cases, e_i, results,
          g_pc, g_args, g_calls, g_output, g_file, g_exit,
          h_pc, h_event, h_metadata, h_environment, h_staging, h_calls, h_version,
          h_response>>

\* the variables of the runs of main, and those of a wait loop run on its own
mainVars == <<pc, args, out, attempt, index_exists, s3v_error, oss_error, raised, last_status,
              written, calls, kb, dataSources, bucket, index, collection,
              policies, osIndex, associated>>
waitVars == <<w_loop, w_timeout, w_pc, statuses_read, sleeps, started, wait_error>>

\* the variables of the other programs, each run under a specification of
\* its own: the chunking arguments of knowledge_base/main.py, the build
\* pipeline, the deployment stack, prepare_agent/main.py
chunkVars == <<c_pc, c_argv, c_args, c_site, c_request>>
pipeVars == <<params, steps, finished, evaluation, kb_job>>
deployVars == <<approval, bus, invocations, aliases, responses>>
prepVars == <<p_pc, p_output, p_reads, p_alias, p_file, p_exit>>
cliVars == <<ad_pc, ad_versions, ad_latest, ad_source, ad_version, ad_requests,
             ad_reads, ad_status, ad_ready, ad_error, ad_return>>
evalVars == <<e_pc, test_cases, e_i, results>>
actionVars == <<g_pc, g_args, g_calls, g_output, g_file, g_exit>>
lambdaVars == <<h_pc, h_event, h_metadata, h_environment, h_staging, h_calls, h_version,
                h_response>>
toolVars == <<cliVars, evalVars, actionVars, lambdaVars>>

\* what a step of a run of main leaves alone
sideVars == <<waitVars, chunkVars, pipeVars, deployVars, prepVars,
              cliVars, evalVars, actionVars, lambdaVars>>

localVars == <<args, attempt, index_exists, s3v_error, oss_error, last_status>>
fallbackLocals == <<args, attempt, index_exists, s3v_error, last_status>>
serviceVars == <<kb, dataSources, bucket, index, collection, policies, osIndex,
                 associated>>

\* the calls of a run that are counted: client operations, and the fallback
\* function ensure_opensearch_serverless_collection (main, line 897)
Operations ==
    {"create_knowledge_base", "create_data_source", "start_ingestion_job",
     "list_agents", "associate_agent_knowledge_base",
     "ensure_opensearch_serverless_collection"}

\* the id the service gives the knowledge base named {agent}-kb
KbId == "KB1"
NoId == "None"

\* output = {...} of main, lines 776-786; data_source_id 0 is None
InitialOutput ==
    [enabled |-> FALSE, knowledge_base_id |-> NoId, data_source_id |-> 0,
     status |-> "skipped", storage_type |-> "N/A",
     ingestion |-> [status |-> "skipped", documents_indexed |-> 0],
     agent_associated |-> "unset", error |-> <<>>]

\* the command line: every option is read once by main, and the model draws
\* its value in the step that reads it
NoArgs ==
    [enable |-> FALSE, skip_ingestion |-> FALSE, ingestion_timeout |-> 0,
     max_tokens |-> 0, overlap_percentage |-> 0]

\* --max-tokens / --overlap-percentage: the argparse defaults and another choice
ChunkingChoices == {<<1024, 20>>, <<512, 10>>}

\* data sources a pre-existing knowledge base can have: the name
\* {agent}-datasource is the one create_data_source uses
PreexistingDataSources ==
    { <<>>,
      <<[id |-> 1, name |-> "derived", chunking |-> <<300, 10>>]>>,
      <<[id |-> 2, name |-> "other", chunking |-> <<300, 10>>],
        [id |-> 1, name |-> "derived", chunking |-> <<300, 10>>]>> }

\* the steps of the build pipeline (pipeline.py, lines 150-475)
ProcessingSteps ==
    <<"SetupAndValidation", "CreateBedrockAgent", "CreateKnowledgeBase",
      "DeployActionGroups", "PrepareAgent", "EvaluateAgent">>
StepNames ==
    {ProcessingSteps[i] : i \in 1..Len(ProcessingSteps)}
        \cup {"CheckEvaluationResults", "RegisterAgentModel", "EvaluationFailed"}

\* the model packages of the account
Packages == {"package1", "package2"}

\* no wait loop is run on its own
WaitUnused ==
    /\ w_loop = "none"
    /\ w_timeout = 0
    /\ w_pc = "unused"
    /\ statuses_read = <<>>
    /\ sleeps = 0
    /\ started = 0
    /\ wait_error = NoError

\* the chunking arguments are not followed on their own
ChunkUnused ==
    /\ c_pc = "unused"
    /\ c_argv = [max_tokens |-> <<>>, overlap_percentage |-> <<>>]
    /\ c_args = [max_tokens |-> 0, overlap_percentage |-> 0]
    /\ c_site = "none"
    /\ c_request = <<>>

\* no pipeline execution
PipeUnused ==
    /\ params = [EvaluationThreshold |-> 0, SkipKBIngestion |-> "false",
                 EnableKnowledgeBase |-> "true"]
    /\ steps = [s \in StepNames |-> "unused"]
    /\ finished = <<>>
    /\ evaluation = <<>>
    /\ kb_job = <<>>

\* no deployment stack
DeployUnused ==
    /\ approval = [p \in Packages |-> [status |-> "none", was_approved |-> FALSE]]
    /\ bus = {}
    /\ invocations = {}
    /\ aliases = {}
    /\ responses = [p \in Packages |-> "none"]

\* no run of prepare_agent/main.py
PrepUnused ==
    /\ p_pc = "unused"
    /\ p_output = <<>>
    /\ p_reads = <<>>
    /\ p_alias = "none"
    /\ p_file = <<>>
    /\ p_exit = "none"

\* no AgentDeployer
CliUnused ==
    /\ ad_pc = "unused"
    /\ ad_versions = <<>>
    /\ ad_latest = <<>>
    /\ ad_source = <<>>
    /\ ad_version = <<>>
    /\ ad_requests = <<>>
    /\ ad_reads = <<>>
    /\ ad_status = <<>>
    /\ ad_ready = <<>>
    /\ ad_error = NoError
    /\ ad_return = <<>>

\* no run of evaluate/main.py
EvalUnused ==
    /\ e_pc = "unused"
    /\ test_cases = <<>>
    /\ e_i = 0
    /\ results = <<>>

\* no run of action_groups/main.py
ActionsUnused ==
    /\ g_pc = "unused"
    /\ g_args = <<>>
    /\ g_calls = <<>>
    /\ g_output = <<>>
    /\ g_file = <<>>
    /\ g_exit = "none"

\* no invocation of the deployment Lambda followed call by call
LambdaUnused ==
    /\ h_pc = "unused"
    /\ h_event = <<>>
    /\ h_metadata = <<>>
    /\ h_environment = "none"
    /\ h_staging = <<>>
    /\ h_calls = <<>>
    /\ h_version = <<>>
    /\ h_response = <<>>

\* none of the other command-line tools and handlers runs
ToolsUnused == CliUnused /\ EvalUnused /\ ActionsUnused /\ LambdaUnused

Init ==
    /\ ToolsUnused
    /\ pc = [r \in Runs |-> "start"]
    /\ args = [r \in Runs |-> NoArgs]
    /\ out = [r \in Runs |-> InitialOutput]
    /\ attempt = [r \in Runs |-> 0]
    /\ index_exists = [r \in Runs |-> FALSE]
    /\ s3v_error = [r \in Runs |-> NoError]
    /\ oss_error = [r \in Runs |-> NoError]
    /\ raised = [r \in Runs |-> NoError]
    /\ last_status = [r \in Runs |-> "none"]
    /\ written = [r \in Runs |-> <<>>]
    /\ calls = [r \in Runs |-> [o \in Operations |-> 0]]
    /\ \/ /\ kb = [status |-> "ACTIVE", storage |-> "S3_VECTORS", by |-> "pre"]
          /\ dataSources \in PreexistingDataSources
          /\ bucket = TRUE
          /\ index = "pre"
          /\ collection = "absent"
       \/ /\ kb = [status |-> "absent", storage |-> "none", by |-> "none"]
          /\ dataSources = <<>>
          /\ bucket \in BOOLEAN
          /\ index \in (IF bucket THEN {"none", "pre"} ELSE {"none"})
          /\ collection \in {"absent", "CREATING", "ACTIVE"}
    /\ policies = IF collection = "absent" THEN {} ELSE {"encryption", "network", "data"}
    /\ osIndex = FALSE
    /\ associated = FALSE
    /\ WaitUnused
    /\ ChunkUnused
    /\ PipeUnused
    /\ DeployUnused
    /\ PrepUnused

\* ------------------------------------------------------------------------
\* Helpers of the run steps
\* ------------------------------------------------------------------------

Goto(r, p) == pc' = [pc EXCEPT ![r] = p]

Called(r, op) == calls' = [calls EXCEPT ![r][op] = @ + 1]

Ended(r) == pc[r] \in {"done", "crashed"}

\* an outer handler that re-raises without recording the error
FatalUnrecorded(r, e) ==
    /\ Goto(r, "crashed")
    /\ raised' = [raised EXCEPT ![r] = e]
    /\ UNCHANGED out

\* main, lines 1001-1005: the outer handler records the error and re-raises
Fatal(r, e) ==
    /\ Goto(r, "crashed")
    /\ out' = [out EXCEPT ![r].status = "error", ![r].error = Str(e)]
    /\ raised' = [raised EXCEPT ![r] = e]

\* main, lines 1007-1013: main reached its end; kb_output.json is written
\* with the output dict o and the process exits 0
FinishWritingTwice(r, o) ==
    /\ Goto(r, "done")
    /\ out' = [out EXCEPT ![r] = o]
    /\ written' = [written EXCEPT ![r] = Append(Append(@, o), o)]

\* main, lines 1007-1013: main reaches its end and writes kb_output.json
Finish(r, o) ==
    /\ Goto(r, "done")
    /\ out' = [out EXCEPT ![r] = o]
    /\ written' = [written EXCEPT ![r] = Append(@, o)]

\* main, lines 881-907: the primary backend raised; fall back to OpenSearch Serverless
PrimaryFailed(r, e) ==
    /\ Goto(r, "fb_get_collection")
    /\ s3v_error' = [s3v_error EXCEPT ![r] = e]
    /\ UNCHANGED <<out, raised, oss_error>>

\* ------------------------------------------------------------------------
\* main: argument parsing and the knowledge-base probe
\* ------------------------------------------------------------------------

\* main, lines 750-796: parse the arguments, build the output dict and the
\* clients, ask STS for the account id
Start(r) ==
    /\ pc[r] = "start"
    /\ UNCHANGED sideVars
    /\ \E enable \in BOOLEAN, sts \in {"ok", "error"} :
          /\ args' = [args EXCEPT ![r].enable = enable]
          /\ IF ~enable
                THEN /\ Finish(r, [out[r] EXCEPT !.enabled = FALSE])
                     /\ UNCHANGED raised
                ELSE IF sts = "error"
                THEN /\ Goto(r, "crashed")
                     /\ out' = [out EXCEPT ![r].enabled = TRUE, ![r].status = "error",
                                           ![r].error = Str(ClientError("AccessDeniedException"))]
                     /\ raised' = [raised EXCEPT ![r] = ClientError("AccessDeniedException")]
                     /\ UNCHANGED written
                ELSE /\ Goto(r, "probe_kb")
                     /\ out' = [out EXCEPT ![r].enabled = TRUE]
                     /\ UNCHANGED <<raised, written>>
    /\ UNCHANGED <<attempt, index_exists, s3v_error, oss_error, last_status, calls>>
    /\ UNCHANGED serviceVars

\* get_existing_knowledge_base: the value it returns for each answer of
\* list_knowledge_bases ("found", "absent"); a ClientError is logged and
\* None is returned, any other exception propagates ("raise")
ProbeResult(answer) ==
    CASE answer = "ok" -> IF kb.status # "absent" THEN "found" ELSE "absent"
      [] answer = "ClientError" -> "absent"
      [] OTHER -> "raise"

\* main, lines 806-812: 1. Check if KB exists
ProbeKnowledgeBase(r) ==
    /\ pc[r] = "probe_kb"
    /\ UNCHANGED sideVars
    /\ \E answer \in {"ok", "ClientError", "Exception"} :
          CASE ProbeResult(answer) = "found" ->
                  /\ Goto(r, "list_ds")
                  /\ out' = [out EXCEPT ![r].knowledge_base_id = KbId,
                                        ![r].status = "existing"]
                  /\ UNCHANGED raised
            [] ProbeResult(answer) = "absent" ->
                  /\ Goto(r, "get_bucket")
                  /\ UNCHANGED <<out, raised>>
            [] OTHER -> Fatal(r, OtherError)
    /\ UNCHANGED <<localVars, written, calls>>
    /\ UNCHANGED serviceVars

\* the last data source of the listing
LastDataSource(summaries) == summaries[Len(summaries)]

\* main, line 819: data_sources[0]
FirstDataSource(summaries) == summaries[1]

\* a listing step that takes an empty listing for a missing knowledge base
ListDataSourcesThenProvision(r) ==
    /\ pc[r] = "list_ds"
    /\ IF dataSources # <<>>
          THEN /\ Goto(r, "ingestion_gate")
               /\ out' = [out EXCEPT ![r].data_source_id = FirstDataSource(dataSources).id]
          ELSE /\ Goto(r, "get_bucket")
               /\ UNCHANGED out
    /\ UNCHANGED <<raised, localVars, written, calls, sideVars>>
    /\ UNCHANGED serviceVars

\* main, lines 814-831: reuse the first data source of the existing KB
ListDataSources(r) ==
    /\ pc[r] = "list_ds"
    /\ UNCHANGED sideVars
    /\ \E answer \in {"ok", "ClientError"} :
          IF answer = "ok"
             THEN IF dataSources # <<>>
                     THEN /\ Goto(r, "ingestion_gate")
                          /\ out' = [out EXCEPT ![r].data_source_id =
                                                    FirstDataSource(dataSources).id]
                          /\ UNCHANGED raised
                     ELSE /\ Goto(r, "create_ds")
                          /\ UNCHANGED <<out, raised>>
             ELSE Fatal(r, ClientError("AccessDeniedException"))
    /\ UNCHANGED <<localVars, written, calls>>
    /\ UNCHANGED serviceVars

\* the answers the service can give to create_data_source: the name
\* {agent}-datasource is unique within a knowledge base
CreateDataSourceAnswers ==
    IF \E i \in 1..Len(dataSources) : dataSources[i].name = "derived"
       THEN {"ConflictException", "AccessDeniedException"}
       ELSE {"ok", "AccessDeniedException"}

\* create_data_source, called at main lines 824-831 and 944-951 with
\* max_tokens=args.max_tokens, overlap_percentage=args.overlap_percentage
CreateDataSource(r) ==
    /\ pc[r] = "create_ds"
    /\ UNCHANGED sideVars
    /\ Called(r, "create_data_source")
    /\ \E ch \in ChunkingChoices, answer \in CreateDataSourceAnswers :
          /\ args' = [args EXCEPT ![r].max_tokens = ch[1], ![r].overlap_percentage = ch[2]]
          /\ IF answer = "ok"
                THEN LET ds == [id |-> Len(dataSources) + 1, name |-> "derived",
                                chunking |-> <<args'[r].max_tokens,
                                               args'[r].overlap_percentage>>]
                     IN  /\ dataSources' = Append(dataSources, ds)
                         /\ Goto(r, "ingestion_gate")
                         /\ out' = [out EXCEPT ![r].data_source_id = ds.id]
                         /\ UNCHANGED raised
                ELSE /\ Fatal(r, ClientError(answer))
                     /\ UNCHANGED dataSources
    /\ UNCHANGED <<attempt, index_exists, s3v_error, oss_error, last_status, written>>
    /\ UNCHANGED <<kb, bucket, index, collection, policies, osIndex, associated>>

\* ------------------------------------------------------------------------
\* ensure_s3_vectors_storage: the primary backend
\* ------------------------------------------------------------------------

\* how ensure_s3_vectors_storage classifies the answer to get_vector_bucket
\* (lines 76-90) and to get_index (lines 95-108): the NotFoundException class
\* and the listed not-found codes mean absent, any other ClientError is raised
LookupClass(answer, notFoundCodes) ==
    CASE answer = "ok" -> "exists"
      [] answer = "NotFoundException" -> "absent"
      [] answer \in notFoundCodes -> "absent"
      [] OTHER -> "raise"

BucketNotFoundCodes == {"NoSuchVectorBucket", "ResourceNotFoundException"}
IndexNotFoundCodes == {"NoSuchIndex", "ResourceNotFoundException"}

\* lines 76-90, the lookup
GetVectorBucket(r) ==
    /\ pc[r] = "get_bucket"
    /\ UNCHANGED sideVars
    /\ \E answer \in (IF bucket THEN {"ok"} ELSE {"NotFoundException", "NoSuchVectorBucket"})
                        \cup {"AccessDeniedException"} :
          CASE LookupClass(answer, BucketNotFoundCodes) = "exists" ->
                  /\ Goto(r, "get_index")
                  /\ UNCHANGED <<out, raised, s3v_error, oss_error>>
            [] LookupClass(answer, BucketNotFoundCodes) = "absent" ->
                  /\ Goto(r, "create_bucket")
                  /\ UNCHANGED <<out, raised, s3v_error, oss_error>>
            [] OTHER -> PrimaryFailed(r, ClientError(answer))
    /\ UNCHANGED <<args, attempt, index_exists, last_status, written, calls>>
    /\ UNCHANGED serviceVars

\* lines 81 and 87: create_vector_bucket is called from inside the except
\* handlers, so whatever it raises leaves ensure_s3_vectors_storage
CreateVectorBucket(r) ==
    /\ pc[r] = "create_bucket"
    /\ UNCHANGED sideVars
    /\ \E answer \in (IF bucket THEN {"ConflictException"} ELSE {"ok"})
                        \cup {"AccessDeniedException"} :
          IF answer = "ok"
             THEN /\ bucket' = TRUE
                  /\ Goto(r, "get_index")
                  /\ UNCHANGED <<out, raised, s3v_error, oss_error>>
             ELSE /\ PrimaryFailed(r, ClientError(answer))
                  /\ UNCHANGED bucket
    /\ UNCHANGED <<args, attempt, index_exists, last_status, written, calls>>
    /\ UNCHANGED <<kb, dataSources, index, collection, policies, osIndex, associated>>

\* lines 94-108
GetIndex(r) ==
    /\ pc[r] = "get_index"
    /\ UNCHANGED sideVars
    /\ \E answer \in (IF index # "none" THEN {"ok"} ELSE {"NotFoundException", "NoSuchIndex"})
                        \cup {"AccessDeniedException"} :
          CASE LookupClass(answer, IndexNotFoundCodes) = "exists" ->
                  /\ index_exists' = [index_exists EXCEPT ![r] = TRUE]
                  /\ Goto(r, "delete_index")
                  /\ UNCHANGED <<out, raised, s3v_error, oss_error>>
            [] LookupClass(answer, IndexNotFoundCodes) = "absent" ->
                  /\ index_exists' = [index_exists EXCEPT ![r] = FALSE]
                  /\ Goto(r, "create_index")
                  /\ UNCHANGED <<out, raised, s3v_error, oss_error>>
            [] OTHER ->
                  /\ PrimaryFailed(r, ClientError(answer))
                  /\ UNCHANGED index_exists
    /\ UNCHANGED <<args, attempt, last_status, written, calls>>
    /\ UNCHANGED serviceVars

\* lines 111-122: what the handler does with the answer of delete_index:
\* every exception is logged and dropped
DeleteOutcome(answer) == IF answer = "ok" THEN "deleted" ELSE "ignored"

\* lines 111-122
DeleteIndex(r) ==
    /\ pc[r] = "delete_index"
    /\ UNCHANGED sideVars
    /\ index_exists[r]
    /\ \E answer \in (IF index # "none" THEN {"ok"} ELSE {"NotFoundException"})
                        \cup {"AccessDeniedException"} :
          index' = IF DeleteOutcome(answer) = "deleted" THEN "none" ELSE index
    /\ Goto(r, "create_index")
    /\ UNCHANGED <<out, raised, s3v_error, oss_error>>
    /\ UNCHANGED <<args, attempt, index_exists, last_status, written, calls>>
    /\ UNCHANGED <<kb, dataSources, bucket, collection, policies, osIndex, associated>>

\* lines 138-145: what the handler does with a ClientError of create_index
CreateIndexOutcome(answer) ==
    CASE answer = "ok" -> "created"
      [] answer = "ConflictException" -> "continue"
      [] OTHER -> "raise"

\* lines 124-158: create the index, then return the ARNs to main (865-866)
CreateIndex(r) ==
    /\ pc[r] = "create_index"
    /\ UNCHANGED sideVars
    /\ \E answer \in (IF index # "none" THEN {"ConflictException"} ELSE {"ok"})
                        \cup {"AccessDeniedException"} :
          CASE CreateIndexOutcome(answer) = "created" ->
                  /\ index' = r
                  /\ Goto(r, "create_kb")
                  /\ UNCHANGED <<out, raised, s3v_error, oss_error>>
            [] CreateIndexOutcome(answer) = "continue" ->
                  /\ Goto(r, "create_kb")
                  /\ UNCHANGED <<out, raised, s3v_error, oss_error, index>>
            [] OTHER ->
                  /\ PrimaryFailed(r, ClientError(answer))
                  /\ UNCHANGED index
    /\ index_exists' = [index_exists EXCEPT ![r] = FALSE]
    /\ UNCHANGED <<args, attempt, last_status, written, calls>>
    /\ UNCHANGED <<kb, dataSources, bucket, collection, policies, osIndex, associated>>

\* ------------------------------------------------------------------------
\* Knowledge-base creation on either backend
\* ------------------------------------------------------------------------

\* an aggregate error that names the fallback error alone
AggregateErrorWithoutPrimary(s3v, oss) ==
    PlainException(<<"No se pudo crear KB con ningun backend.">>
                   \o <<"OpenSearch error:">> \o Str(oss))

\* main, lines 932-934: both backends failed; one exception whose text
\* embeds str(s3v_error) and str(oss_error)
AggregateError(s3v, oss) ==
    PlainException(<<"No se pudo crear KB con ningun backend. S3 Vectors error:">>
                   \o Str(s3v) \o <<"OpenSearch error:">> \o Str(oss))

\* main, lines 932-934 and 1001-1005: the fallback raised
FallbackFailed(r, e) ==
    /\ oss_error' = [oss_error EXCEPT ![r] = e]
    /\ Fatal(r, AggregateError(s3v_error[r], e))

\* the answers the service can give to create_knowledge_base: the name
\* {agent}-kb is unique
CreateKnowledgeBaseAnswers ==
    (IF kb.status = "absent" THEN {"ok"} ELSE {"ConflictException"})
        \cup {"AccessDeniedException"}

\* a loop that does not look for the status FAILED
KbPollStepIgnoringFailed(status, n) ==
    CASE status = "ACTIVE" -> "return"
      [] n + 1 >= KbPollAttempts -> "give_up"
      [] OTHER -> "sleep"

\* a loop that sleeps once before it looks at the status
KbPollStepAfterSleep(status, n) ==
    CASE n = 0 -> "sleep"
      [] status = "ACTIVE" -> "return"
      [] status = "FAILED" -> "raise"
      [] n + 1 >= KbPollAttempts -> "give_up"
      [] OTHER -> "sleep"

\* one iteration of the wait loop (lines 229-241, 572-584): "return" (break
\* on ACTIVE), "raise" (FAILED), "give_up" (the loop ran out: the else branch
\* logs a warning and the function returns), "sleep"
KbPollStep(status, n) ==
    CASE status = "ACTIVE" -> "return"
      [] status = "FAILED" -> "raise"
      [] n + 1 >= KbPollAttempts -> "give_up"
      [] OTHER -> "sleep"

KbCreationFailed == PlainException(<<"Knowledge base creation failed">>)

\* create_knowledge_base, lines 216-225
CreateKnowledgeBase(r) ==
    /\ pc[r] = "create_kb"
    /\ UNCHANGED sideVars
    /\ Called(r, "create_knowledge_base")
    /\ \E answer \in CreateKnowledgeBaseAnswers :
          IF answer = "ok"
             THEN /\ kb' = [status |-> "CREATING", storage |-> "S3_VECTORS", by |-> r]
                  /\ Goto(r, "poll_kb")
                  /\ UNCHANGED <<out, raised, s3v_error, oss_error>>
             ELSE /\ PrimaryFailed(r, ClientError(answer))
                  /\ UNCHANGED kb
    /\ UNCHANGED <<args, attempt, index_exists, last_status, written>>
    /\ UNCHANGED <<dataSources, bucket, index, collection, policies, osIndex, associated>>

\* a return that labels every knowledge base as the fallback's
KnowledgeBaseReturnedAsFallback(r, storage_type_used) ==
    /\ out' = [out EXCEPT ![r].knowledge_base_id = KbId,
                          ![r].status = "created",
                          ![r].storage_type = "OPENSEARCH_SERVERLESS"]
    /\ s3v_error' = [s3v_error EXCEPT ![r] = NoError]
    /\ attempt' = [attempt EXCEPT ![r] = 0]
    /\ Goto(r, "create_ds")
    /\ UNCHANGED <<raised, oss_error>>

\* main, lines 878 / 927-929 and 938-941: the create function returned the
\* knowledge base; the except clause, if it was entered, is left and its
\* variable s3v_error is unbound
KnowledgeBaseReturned(r, storage_type_used) ==
    /\ out' = [out EXCEPT ![r].knowledge_base_id = KbId,
                          ![r].status = "created",
                          ![r].storage_type = storage_type_used]
    /\ s3v_error' = [s3v_error EXCEPT ![r] = NoError]
    /\ attempt' = [attempt EXCEPT ![r] = 0]
    /\ Goto(r, "create_ds")
    /\ UNCHANGED <<raised, oss_error>>

\* create_knowledge_base, lines 227-243: one iteration of the wait loop
PollKnowledgeBase(r) ==
    /\ pc[r] = "poll_kb"
    /\ UNCHANGED sideVars
    /\ \E answer \in {"ok", "AccessDeniedException"} :
          IF answer # "ok"
             THEN /\ PrimaryFailed(r, ClientError(answer))
                  /\ attempt' = [attempt EXCEPT ![r] = 0]
             ELSE CASE KbPollStep(kb.status, attempt[r]) \in {"return", "give_up"} ->
                          KnowledgeBaseReturned(r, "S3_VECTORS")
                    [] KbPollStep(kb.status, attempt[r]) = "raise" ->
                          /\ PrimaryFailed(r, KbCreationFailed)
                          /\ attempt' = [attempt EXCEPT ![r] = 0]
                    [] OTHER ->
                          /\ attempt' = [attempt EXCEPT ![r] = @ + 1]
                          /\ UNCHANGED <<pc, out, raised, s3v_error, oss_error>>
    /\ UNCHANGED <<args, index_exists, last_status, written, calls>>
    /\ UNCHANGED serviceVars

\* the service finishes creating the knowledge base
KnowledgeBaseSettles ==
    /\ kb.status = "CREATING"
    /\ UNCHANGED sideVars
    /\ \E st \in {"ACTIVE", "FAILED"} : kb' = [kb EXCEPT !.status = st]
    /\ UNCHANGED <<pc, out, raised, localVars, written, calls>>
    /\ UNCHANGED <<dataSources, bucket, index, collection, policies, osIndex, associated>>

\* ------------------------------------------------------------------------
\* The fallback backend: OpenSearch Serverless
\* ------------------------------------------------------------------------

\* the answers to the first batch_get_collection (lines 327-337): "details"
\* is a collection summary with its endpoint, "no_endpoint" one that has no
\* collectionEndpoint yet (the subscript raises KeyError), "empty" none at all
FirstCollectionAnswers ==
    CASE collection = "absent" -> {"empty", "AccessDeniedException"}
      [] collection = "CREATING" -> {"details", "no_endpoint", "AccessDeniedException"}
      [] OTHER -> {"details", "AccessDeniedException"}

\* lines 326-337: an existing collection is returned as it is; every
\* exception of the lookup is logged and the creation path is taken
GetCollection(r) ==
    /\ pc[r] = "fb_get_collection"
    /\ UNCHANGED sideVars
    /\ Called(r, "ensure_opensearch_serverless_collection")
    /\ \E answer \in FirstCollectionAnswers :
          IF answer = "details"
             THEN Goto(r, "fb_put_index")
             ELSE Goto(r, "fb_enc_policy")
    /\ UNCHANGED <<out, raised, localVars, written>>
    /\ UNCHANGED serviceVars

\* handlers that raise every exception of a create call
ConflictFatal(e) == "raise"

\* how the handlers of lines 352-355, 370-373, 393-396 and 407-410 treat an
\* exception of a create call: a ClientError whose text names
\* ConflictException is logged ("continue"), everything else is raised
ConflictTolerated(e) ==
    IF e.type = "ClientError" /\ InStr("ConflictException", e) THEN "continue" ELSE "raise"

\* what a create call of the fallback path can raise for a resource
CreateErrors(exists) ==
    (IF exists THEN {ClientError("ConflictException")} ELSE {NoError})
        \cup {ClientError("AccessDeniedException")}

\* lines 339-396: one of the three policy creations
CreatePolicy(r, at, policy, next) ==
    /\ pc[r] = at
    /\ UNCHANGED sideVars
    /\ \E e \in CreateErrors(policy \in policies) :
          CASE e = NoError ->
                  /\ policies' = policies \cup {policy}
                  /\ Goto(r, next)
                  /\ UNCHANGED <<out, raised, oss_error>>
            [] e # NoError /\ ConflictTolerated(e) = "continue" ->
                  /\ Goto(r, next)
                  /\ UNCHANGED <<out, raised, oss_error, policies>>
            [] OTHER ->
                  /\ FallbackFailed(r, e)
                  /\ UNCHANGED policies
    /\ UNCHANGED <<fallbackLocals, written, calls>>
    /\ UNCHANGED <<kb, dataSources, bucket, index, collection, osIndex, associated>>

\* lines 339-355
CreateEncryptionPolicy(r) == CreatePolicy(r, "fb_enc_policy", "encryption", "fb_net_policy")

\* lines 357-373
CreateNetworkPolicy(r) == CreatePolicy(r, "fb_net_policy", "network", "fb_access_policy")

\* lines 375-396
CreateAccessPolicy(r) == CreatePolicy(r, "fb_access_policy", "data", "fb_create_collection")

\* lines 398-410
CreateCollection(r) ==
    /\ pc[r] = "fb_create_collection"
    /\ UNCHANGED sideVars
    /\ \E e \in CreateErrors(collection # "absent") :
          CASE e = NoError ->
                  /\ collection' = "CREATING"
                  /\ Goto(r, "fb_poll_collection")
                  /\ UNCHANGED <<out, raised, oss_error>>
            [] e # NoError /\ ConflictTolerated(e) = "continue" ->
                  /\ Goto(r, "fb_poll_collection")
                  /\ UNCHANGED <<out, raised, oss_error, collection>>
            [] OTHER ->
                  /\ FallbackFailed(r, e)
                  /\ UNCHANGED collection
    /\ UNCHANGED <<fallbackLocals, written, calls>>
    /\ UNCHANGED <<kb, dataSources, bucket, index, policies, osIndex, associated>>

\* one iteration of the wait loop (lines 414-429): "return" on ACTIVE,
\* "raise" on FAILED, "timeout" when the loop runs out, else "sleep"
CollectionPollStep(status, n) ==
    CASE status = "ACTIVE" -> "return"
      [] status = "FAILED" -> "raise"
      [] n + 1 >= CollectionPollAttempts -> "timeout"
      [] OTHER -> "sleep"

CollectionFailed == PlainException(<<"Collection creation failed">>)
CollectionTimedOut == PlainException(<<"Timeout waiting for collection">>)

\* lines 412-429
PollCollection(r) ==
    /\ pc[r] = "fb_poll_collection"
    /\ UNCHANGED sideVars
    /\ \E answer \in {"ok", "AccessDeniedException"} :
          IF answer # "ok"
             THEN /\ FallbackFailed(r, ClientError(answer))
                  /\ attempt' = [attempt EXCEPT ![r] = 0]
             ELSE CASE CollectionPollStep(collection, attempt[r]) = "return" ->
                          /\ Goto(r, "fb_put_index")
                          /\ attempt' = [attempt EXCEPT ![r] = 0]
                          /\ UNCHANGED <<out, raised, oss_error>>
                    [] CollectionPollStep(collection, attempt[r]) = "raise" ->
                          /\ FallbackFailed(r, CollectionFailed)
                          /\ attempt' = [attempt EXCEPT ![r] = 0]
                    [] CollectionPollStep(collection, attempt[r]) = "timeout" ->
                          /\ FallbackFailed(r, CollectionTimedOut)
                          /\ attempt' = [attempt EXCEPT ![r] = 0]
                    [] OTHER ->
                          /\ attempt' = [attempt EXCEPT ![r] = @ + 1]
                          /\ UNCHANGED <<pc, out, raised, oss_error>>
    /\ UNCHANGED <<args, index_exists, s3v_error, last_status, written, calls>>
    /\ UNCHANGED serviceVars

\* the service finishes creating the collection
CollectionSettles ==
    /\ collection = "CREATING"
    /\ UNCHANGED sideVars
    /\ collection' \in {"ACTIVE", "FAILED"}
    /\ UNCHANGED <<pc, out, raised, localVars, written, calls>>
    /\ UNCHANGED <<kb, dataSources, bucket, index, policies, osIndex, associated>>

\* create_opensearch_index, lines 493-503: the HTTP status of the signed
\* PUT; "exists" is the 400 resource_already_exists_exception; every
\* response returns index_name, only a failure of requests.put itself raises
OpenSearchIndexOutcome(response) ==
    CASE response = "ConnectionError" -> "raise"
      [] OTHER -> "return"

\* the responses the index endpoint can give
PutIndexResponses ==
    (IF osIndex THEN {"exists"}
     ELSE IF collection = "ACTIVE" THEN {"200"} ELSE {"404"})
        \cup {"403", "ConnectionError"}

\* main, lines 909-915
CreateOpenSearchIndex(r) ==
    /\ pc[r] = "fb_put_index"
    /\ UNCHANGED sideVars
    /\ \E response \in PutIndexResponses :
          /\ osIndex' = (osIndex \/ response = "200")
          /\ IF OpenSearchIndexOutcome(response) = "return"
                THEN /\ Goto(r, "fb_create_kb")
                     /\ UNCHANGED <<out, raised, oss_error>>
                ELSE FallbackFailed(r, OtherError)
    /\ UNCHANGED <<fallbackLocals, written, calls>>
    /\ UNCHANGED <<kb, dataSources, bucket, index, collection, policies, associated>>

\* create_knowledge_base_with_opensearch, lines 559-568
CreateKnowledgeBaseWithOpenSearch(r) ==
    /\ pc[r] = "fb_create_kb"
    /\ UNCHANGED sideVars
    /\ Called(r, "create_knowledge_base")
    /\ \E answer \in CreateKnowledgeBaseAnswers :
          IF answer = "ok"
             THEN /\ kb' = [status |-> "CREATING", storage |-> "OPENSEARCH_SERVERLESS",
                            by |-> r]
                  /\ Goto(r, "fb_poll_kb")
                  /\ UNCHANGED <<out, raised, oss_error>>
             ELSE /\ FallbackFailed(r, ClientError(answer))
                  /\ UNCHANGED kb
    /\ UNCHANGED <<fallbackLocals, written>>
    /\ UNCHANGED <<dataSources, bucket, index, collection, policies, osIndex, associated>>

\* create_knowledge_base_with_opensearch, lines 570-586: one iteration of the wait loop
PollKnowledgeBaseWithOpenSearch(r) ==
    /\ pc[r] = "fb_poll_kb"
    /\ UNCHANGED sideVars
    /\ \E answer \in {"ok", "AccessDeniedException"} :
          IF answer # "ok"
             THEN /\ FallbackFailed(r, ClientError(answer))
                  /\ attempt' = [attempt EXCEPT ![r] = 0]
                  /\ UNCHANGED s3v_error
             ELSE CASE KbPollStep(kb.status, attempt[r]) \in {"return", "give_up"} ->
                          KnowledgeBaseReturned(r, "OPENSEARCH_SERVERLESS")
                    [] KbPollStep(kb.status, attempt[r]) = "raise" ->
                          /\ FallbackFailed(r, KbCreationFailed)
                          /\ attempt' = [attempt EXCEPT ![r] = 0]
                          /\ UNCHANGED s3v_error
                    [] OTHER ->
                          /\ attempt' = [attempt EXCEPT ![r] = @ + 1]
                          /\ UNCHANGED <<pc, out, raised, s3v_error, oss_error>>
    /\ UNCHANGED <<args, index_exists, last_status, written, calls>>
    /\ UNCHANGED serviceVars

\* ------------------------------------------------------------------------
\* Ingestion
\* ------------------------------------------------------------------------

\* statuses get_ingestion_job can report; IN_PROGRESS stands for STARTING
\* too (one branch, line 671), STOPPED for every status the loop does not know
JobStatuses == {"IN_PROGRESS", "COMPLETE", "FAILED", "STOPPED"}

\* failureReasons of a FAILED job
FailureReasons == <<"parse error">>

\* numberOfDocumentsIndexed of a COMPLETE job
DocumentsIndexed == 3

\* wait_for_ingestion_job, line 641
MaxAttempts(timeout_minutes) == timeout_minutes * PollsPerMinute

IngestionFailed(reasons) == PlainException(<<"Ingestion job failed:">> \o reasons)
\* line 680: the message names timeout_minutes and nothing else
IngestionTimedOut(minutes) ==
    TimeoutErrorOf(<<"Ingestion job timeout after", ToString(minutes), "minutes">>)

\* wait_for_ingestion_job, lines 643 and 680: entering the loop; an empty
\* range(max_attempts) goes straight to the raise of line 680
WaitEntry(max_attempts) == IF max_attempts <= 0 THEN "timeout" ELSE "poll"

\* a loop that allows one iteration more than max_attempts
WaitStepOneMore(status, n, max_attempts) ==
    CASE status = "COMPLETE" -> "return"
      [] status = "FAILED" -> "raise"
      [] n >= max_attempts -> "timeout"
      [] OTHER -> "sleep"

\* a loop that raises on a status it does not know
WaitStepUnknownRaises(status, n, max_attempts) ==
    CASE status = "COMPLETE" -> "return"
      [] status \notin {"STARTING", "IN_PROGRESS"} -> "raise"
      [] n + 1 >= max_attempts -> "timeout"
      [] OTHER -> "sleep"

\* wait_for_ingestion_job, lines 643-680: iteration n of the loop with the
\* status it reads: "return" on COMPLETE, "raise" on FAILED, else a sleep,
\* after which the loop goes on ("sleep") or has run out ("timeout")
WaitStep(status, n, max_attempts) ==
    CASE status = "COMPLETE" -> "return"
      [] status = "FAILED" -> "raise"
      [] n + 1 >= max_attempts -> "timeout"
      [] OTHER -> "sleep"

\* a gate that does not look at args.skip_ingestion
IngestionGateIgnoringSkip(r) ==
    /\ pc[r] = "ingestion_gate"
    /\ \E skip \in BOOLEAN, t \in 0..MaxTimeoutMinutes :
          args' = [args EXCEPT ![r].skip_ingestion = skip, ![r].ingestion_timeout = t]
    /\ Goto(r, "start_ingestion")
    /\ UNCHANGED <<out, raised, attempt, index_exists, s3v_error, oss_error, last_status,
                   written, calls, sideVars>>
    /\ UNCHANGED serviceVars

\* main, line 954: if not args.skip_ingestion ... else (lines 978-980)
IngestionGate(r) ==
    /\ pc[r] = "ingestion_gate"
    /\ UNCHANGED sideVars
    /\ \E skip \in BOOLEAN, t \in 0..MaxTimeoutMinutes :
          /\ args' = [args EXCEPT ![r].skip_ingestion = skip,
                                  ![r].ingestion_timeout = IF skip THEN 0 ELSE t]
          /\ IF skip
                THEN /\ Goto(r, "list_agents")
                     /\ out' = [out EXCEPT ![r].ingestion.status = "skipped"]
                ELSE /\ Goto(r, "start_ingestion")
                     /\ UNCHANGED out
    /\ UNCHANGED <<raised, attempt, index_exists, s3v_error, oss_error, last_status,
                   written, calls>>
    /\ UNCHANGED serviceVars

\* sync_documents_to_kb, lines 710-724, called at main line 958: start the
\* job and enter wait_for_ingestion_job
StartIngestionJob(r) ==
    /\ pc[r] = "start_ingestion"
    /\ UNCHANGED sideVars
    /\ Called(r, "start_ingestion_job")
    /\ \E answer \in {"ok", "AccessDeniedException"} :
          IF answer # "ok"
             THEN Fatal(r, ClientError(answer))
             ELSE IF WaitEntry(MaxAttempts(args[r].ingestion_timeout)) = "timeout"
             THEN Fatal(r, IngestionTimedOut(args[r].ingestion_timeout))
             ELSE /\ Goto(r, "poll_ingestion")
                  /\ UNCHANGED <<out, raised>>
    /\ UNCHANGED <<localVars, written>>
    /\ UNCHANGED serviceVars

\* main, lines 965-977: sync_documents_to_kb returned the completed job and
\* its statistics are recorded
IngestionReturned(r) ==
    /\ out' = [out EXCEPT ![r].ingestion =
                  [status |-> "completed", documents_indexed |-> DocumentsIndexed]]
    /\ Goto(r, "list_agents")
    /\ UNCHANGED raised

\* wait_for_ingestion_job, lines 643-680: one iteration of the loop
GetIngestionJob(r) ==
    /\ pc[r] = "poll_ingestion"
    /\ UNCHANGED sideVars
    /\ \E answer \in JobStatuses \cup {"AccessDeniedException"} :
          IF answer \notin JobStatuses
             THEN /\ Fatal(r, ClientError(answer))
                  /\ attempt' = [attempt EXCEPT ![r] = 0]
                  /\ UNCHANGED last_status
             ELSE LET step == WaitStep(answer, attempt[r],
                                       MaxAttempts(args[r].ingestion_timeout))
                  IN  CASE step = "return" ->
                             /\ IngestionReturned(r)
                             /\ last_status' = [last_status EXCEPT ![r] = answer]
                             /\ attempt' = [attempt EXCEPT ![r] = 0]
                        [] step = "raise" ->
                             /\ Fatal(r, IngestionFailed(FailureReasons))
                             /\ last_status' = [last_status EXCEPT ![r] = answer]
                             /\ attempt' = [attempt EXCEPT ![r] = 0]
                        [] step = "timeout" ->
                             /\ Fatal(r, IngestionTimedOut(args[r].ingestion_timeout))
                             /\ last_status' = [last_status EXCEPT ![r] = answer]
                             /\ attempt' = [attempt EXCEPT ![r] = 0]
                        [] OTHER ->
                             /\ attempt' = [attempt EXCEPT ![r] = @ + 1]
                             /\ UNCHANGED <<pc, out, raised, last_status>>
    /\ UNCHANGED <<args, index_exists, s3v_error, oss_error, written, calls>>
    /\ UNCHANGED serviceVars

\* ------------------------------------------------------------------------
\* Association and the result record
\* ------------------------------------------------------------------------

\* main, lines 983-999: step 8; every exception is logged and dropped
ListAgents(r) ==
    /\ pc[r] = "list_agents"
    /\ UNCHANGED sideVars
    /\ Called(r, "list_agents")
    /\ \E answer \in {"found", "not_found", "AccessDeniedException"} :
          IF answer = "found"
             THEN /\ Goto(r, "associate")
                  /\ UNCHANGED <<out, written>>
             ELSE Finish(r, [out[r] EXCEPT !.agent_associated = "false"])
    /\ UNCHANGED <<raised, localVars>>
    /\ UNCHANGED serviceVars

\* an association step whose failure leaves main
AssociateKnowledgeBaseFatal(r) ==
    /\ pc[r] = "associate"
    /\ Called(r, "associate_agent_knowledge_base")
    /\ \E answer \in (IF associated THEN {"ConflictException"} ELSE {"ok"})
                        \cup {"AccessDeniedException"} :
          IF answer = "ok"
             THEN /\ associated' = TRUE
                  /\ Finish(r, [out[r] EXCEPT !.agent_associated = "true"])
                  /\ UNCHANGED raised
             ELSE /\ Fatal(r, ClientError(answer))
                  /\ UNCHANGED <<associated, written>>
    /\ UNCHANGED <<localVars, sideVars>>
    /\ UNCHANGED <<kb, dataSources, bucket, index, collection, policies, osIndex>>

\* associate_kb_to_agent, called at main line 992
AssociateKnowledgeBase(r) ==
    /\ pc[r] = "associate"
    /\ UNCHANGED sideVars
    /\ Called(r, "associate_agent_knowledge_base")
    /\ \E answer \in (IF associated THEN {"ConflictException"} ELSE {"ok"})
                        \cup {"AccessDeniedException"} :
          IF answer = "ok"
             THEN /\ associated' = TRUE
                  /\ Finish(r, [out[r] EXCEPT !.agent_associated = "true"])
             ELSE /\ Finish(r, [out[r] EXCEPT !.agent_associated = "false"])
                  /\ UNCHANGED associated
    /\ UNCHANGED <<raised, localVars>>
    /\ UNCHANGED <<kb, dataSources, bucket, index, collection, policies, osIndex>>

\* ------------------------------------------------------------------------
\* Specification
\* ------------------------------------------------------------------------

Next ==
    \/ \E r \in Runs : Start(r)
    \/ \E r \in Runs : ProbeKnowledgeBase(r)
    \/ \E r \in Runs : ListDataSources(r)
    \/ \E r \in Runs : CreateDataSource(r)
    \/ \E r \in Runs : GetVectorBucket(r)
    \/ \E r \in Runs : CreateVectorBucket(r)
    \/ \E r \in Runs : GetIndex(r)
    \/ \E r \in Runs : DeleteIndex(r)
    \/ \E r \in Runs : CreateIndex(r)
    \/ \E r \in Runs : CreateKnowledgeBase(r)
    \/ \E r \in Runs : PollKnowledgeBase(r)
    \/ KnowledgeBaseSettles
    \/ \E r \in Runs : GetCollection(r)
    \/ \E r \in Runs : CreateEncryptionPolicy(r)
    \/ \E r \in Runs : CreateNetworkPolicy(r)
    \/ \E r \in Runs : CreateAccessPolicy(r)
    \/ \E r \in Runs : CreateCollection(r)
    \/ \E r \in Runs : PollCollection(r)
    \/ CollectionSettles
    \/ \E r \in Runs : CreateOpenSearchIndex(r)
    \/ \E r \in Runs : CreateKnowledgeBaseWithOpenSearch(r)
    \/ \E r \in Runs : PollKnowledgeBaseWithOpenSearch(r)
    \/ \E r \in Runs : IngestionGate(r)
    \/ \E r \in Runs : StartIngestionJob(r)
    \/ \E r \in Runs : GetIngestionJob(r)
    \/ \E r \in Runs : ListAgents(r)
    \/ \E r \in Runs : AssociateKnowledgeBase(r)

Spec == Init /\ [][Next]_vars

\* ------------------------------------------------------------------------
\* The wait loops on their own: sync_documents_to_kb and the loop of
\* create_knowledge_base, called once, against a service that answers every
\* call and reports any status at each poll
\* ------------------------------------------------------------------------

\* the functions whose loop is run
WaitLoops == {"sync_documents_to_kb", "create_knowledge_base"}

\* statuses get_knowledge_base can report
KbStatuses == {"CREATING", "ACTIVE", "FAILED"}

\* wait_for_ingestion_job, lines 653-678: the statuses the loop names
KnownJobStatuses == {"STARTING", "IN_PROGRESS", "COMPLETE", "FAILED"}

\* the status a loop waits for (lines 653 and 234)
TargetStatus(loop) == IF loop = "sync_documents_to_kb" THEN "COMPLETE" ELSE "ACTIVE"

\* the outcomes of a loop iteration that call time.sleep(10): lines 674 and
\* 678 of wait_for_ingestion_job, line 239 of create_knowledge_base
Sleeps(step) == step \in {"sleep", "timeout", "give_up"}

\* no run of main takes part
MainUnused ==
    /\ pc = [r \in Runs |-> "unused"]
    /\ args = [r \in Runs |-> NoArgs]
    /\ out = [r \in Runs |-> InitialOutput]
    /\ attempt = [r \in Runs |-> 0]
    /\ index_exists = [r \in Runs |-> FALSE]
    /\ s3v_error = [r \in Runs |-> NoError]
    /\ oss_error = [r \in Runs |-> NoError]
    /\ raised = [r \in Runs |-> NoError]
    /\ last_status = [r \in Runs |-> "none"]
    /\ written = [r \in Runs |-> <<>>]
    /\ calls = [r \in Runs |-> [o \in Operations |-> 0]]
    /\ kb = [status |-> "absent", storage |-> "none", by |-> "none"]
    /\ dataSources = <<>>
    /\ bucket = FALSE
    /\ index = "none"
    /\ collection = "absent"
    /\ policies = {}
    /\ osIndex = FALSE
    /\ associated = FALSE

\* a call of sync_documents_to_kb(..., timeout_minutes) or of
\* create_knowledge_base is about to be made
WaitInit ==
    /\ ToolsUnused
    /\ MainUnused
    /\ ChunkUnused
    /\ PipeUnused
    /\ DeployUnused
    /\ PrepUnused
    /\ w_loop \in WaitLoops
    /\ w_timeout \in (IF w_loop = "sync_documents_to_kb"
                               THEN 0..MaxTimeoutMinutes ELSE {0})
    /\ w_pc = "call"
    /\ statuses_read = <<>>
    /\ sleeps = 0
    /\ started = 0
    /\ wait_error = NoError

\* the function ends by raising e
WaitRaises(e) ==
    /\ w_pc' = "raised"
    /\ wait_error' = e

\* sync_documents_to_kb, lines 710-724: start the job (lines 607-611) and
\* enter the loop of wait_for_ingestion_job
SyncDocumentsToKb ==
    /\ w_pc = "call"
    /\ w_loop = "sync_documents_to_kb"
    /\ started' = started + 1
    /\ IF WaitEntry(MaxAttempts(w_timeout)) = "timeout"
          THEN WaitRaises(IngestionTimedOut(w_timeout))
          ELSE /\ w_pc' = "loop"
               /\ UNCHANGED wait_error
    /\ UNCHANGED <<w_loop, w_timeout, statuses_read, sleeps>>
    /\ UNCHANGED <<mainVars, chunkVars, pipeVars, deployVars, prepVars, toolVars>>

\* wait_for_ingestion_job, lines 643-680: one iteration of the loop
WaitForIngestionJob ==
    /\ w_pc = "loop"
    /\ w_loop = "sync_documents_to_kb"
    /\ \E status \in JobStatuses :
          LET step == WaitStep(status, Len(statuses_read), MaxAttempts(w_timeout))
          IN  /\ statuses_read' = Append(statuses_read, status)
              /\ sleeps' = IF Sleeps(step) THEN sleeps + 1 ELSE sleeps
              /\ CASE step = "return" ->
                         /\ w_pc' = "returned"
                         /\ UNCHANGED wait_error
                   [] step = "raise" -> WaitRaises(IngestionFailed(FailureReasons))
                   [] step = "timeout" -> WaitRaises(IngestionTimedOut(w_timeout))
                   [] OTHER -> UNCHANGED <<w_pc, wait_error>>
    /\ UNCHANGED <<w_loop, w_timeout, started>>
    /\ UNCHANGED <<mainVars, chunkVars, pipeVars, deployVars, prepVars, toolVars>>

\* create_knowledge_base, lines 216-225: the create call
CreateKnowledgeBaseCall ==
    /\ w_pc = "call"
    /\ w_loop = "create_knowledge_base"
    /\ w_pc' = "loop"
    /\ UNCHANGED <<w_loop, w_timeout, statuses_read, sleeps, started, wait_error>>
    /\ UNCHANGED <<mainVars, chunkVars, pipeVars, deployVars, prepVars, toolVars>>

\* create_knowledge_base, lines 229-243: one iteration of the loop
WaitForKnowledgeBase ==
    /\ w_pc = "loop"
    /\ w_loop = "create_knowledge_base"
    /\ \E status \in KbStatuses :
          LET step == KbPollStep(status, Len(statuses_read))
          IN  /\ statuses_read' = Append(statuses_read, status)
              /\ sleeps' = IF Sleeps(step) THEN sleeps + 1 ELSE sleeps
              /\ CASE step \in {"return", "give_up"} ->
                         /\ w_pc' = "returned"
                         /\ UNCHANGED wait_error
                   [] step = "raise" -> WaitRaises(KbCreationFailed)
                   [] OTHER -> UNCHANGED <<w_pc, wait_error>>
    /\ UNCHANGED <<w_loop, w_timeout, started>>
    /\ UNCHANGED <<mainVars, chunkVars, pipeVars, deployVars, prepVars, toolVars>>

WaitNext ==
    \/ SyncDocumentsToKb
    \/ WaitForIngestionJob
    \/ CreateKnowledgeBaseCall
    \/ WaitForKnowledgeBase

\* the interpreter runs the function on, and the service answers every call
WaitSpec == WaitInit /\ [][WaitNext]_vars /\ WF_vars(WaitNext)

\* ------------------------------------------------------------------------
\* The chunking arguments of knowledge_base/main.py, followed from the
\* command line to the create_data_source request
\* ------------------------------------------------------------------------

\* main, lines 756-759: default=1024 and default=20
DefaultMaxTokens == 1024
DefaultOverlapPercentage == 20

\* values a caller gives --max-tokens and --overlap-percentage
MaxTokensChoices == {256, 512, 1024, 2048}
OverlapChoices == {0, 10, 20}

\* the branches of main that end at a data source: the knowledge base
\* exists and has one (lines 818-821), exists and has none (lines 822-831),
\* or was created (lines 832-951)
Sites == {"existing_with_ds", "existing_empty", "new"}

\* an argparse reader that drops the value given
ArgIgnored(given, default) == default

\* argparse, lines 756-759: the value of an option, <<>> when the option
\* is not on the command line
ArgOrDefault(given, default) == IF given = <<>> THEN default ELSE given[1]

\* create_data_source, lines 283-291: vectorIngestionConfiguration
ChunkingConfiguration(max_tokens, overlap_percentage) ==
    [chunkingStrategy |-> "FIXED_SIZE",
     maxTokens |-> max_tokens,
     overlapPercentage |-> overlap_percentage]

ChunkingInit ==
    /\ ToolsUnused
    /\ MainUnused
    /\ WaitUnused
    /\ PipeUnused
    /\ DeployUnused
    /\ PrepUnused
    /\ c_pc = "parse"
    /\ c_argv \in [max_tokens : {<<>>} \cup {<<n>> : n \in MaxTokensChoices},
                    overlap_percentage : {<<>>} \cup {<<n>> : n \in OverlapChoices}]
    /\ c_args = [max_tokens |-> 0, overlap_percentage |-> 0]
    /\ c_site \in Sites
    /\ c_request = <<>>

outsideChunking == <<mainVars, waitVars, pipeVars, deployVars, prepVars, toolVars>>

\* main, line 765: parser.parse_args()
ParseArgs ==
    /\ c_pc = "parse"
    /\ c_args' = [max_tokens |-> ArgOrDefault(c_argv.max_tokens, DefaultMaxTokens),
                  overlap_percentage |->
                      ArgOrDefault(c_argv.overlap_percentage, DefaultOverlapPercentage)]
    /\ c_pc' = "main"
    /\ UNCHANGED <<c_argv, c_site, c_request>>
    /\ UNCHANGED outsideChunking

\* main, lines 814-831: the knowledge base exists
DataSourceOfExisting ==
    /\ c_pc = "main"
    /\ c_site \in {"existing_with_ds", "existing_empty"}
    /\ c_request' = IF c_site = "existing_with_ds"
                       THEN c_request
                       ELSE Append(c_request,
                                   ChunkingConfiguration(c_args.max_tokens,
                                                         c_args.overlap_percentage))
    /\ c_pc' = "done"
    /\ UNCHANGED <<c_argv, c_args, c_site>>
    /\ UNCHANGED outsideChunking

\* main, lines 944-951: the knowledge base was created
DataSourceOfNew ==
    /\ c_pc = "main"
    /\ c_site = "new"
    /\ c_request' = Append(c_request,
                           ChunkingConfiguration(c_args.max_tokens,
                                                 c_args.overlap_percentage))
    /\ c_pc' = "done"
    /\ UNCHANGED <<c_argv, c_args, c_site>>
    /\ UNCHANGED outsideChunking

ChunkingNext ==
    \/ ParseArgs
    \/ DataSourceOfExisting
    \/ DataSourceOfNew

ChunkingSpec == ChunkingInit /\ [][ChunkingNext]_vars

\* ------------------------------------------------------------------------
\* The build pipeline (ml_pipelines/agent_build/pipeline.py)
\* ------------------------------------------------------------------------

\* EvaluationThreshold in percent (the default 0.8 is 80), lines 99-102
ThresholdChoices == {0, 50, 80, 100}

\* largest number of test cases of an evaluation
MaxTests == 5

\* add_depends_on, lines 222, 273, 325, 364, 411 and 475
DependsOn(s) ==
    CASE s = "SetupAndValidation" -> {}
      [] s = "CreateBedrockAgent" -> {"SetupAndValidation"}
      [] s = "CreateKnowledgeBase" -> {"CreateBedrockAgent"}
      [] s = "DeployActionGroups" -> {"CreateKnowledgeBase"}
      [] s = "PrepareAgent" -> {"DeployActionGroups"}
      [] s = "EvaluateAgent" -> {"PrepareAgent"}
      [] s = "CheckEvaluationResults" -> {"EvaluateAgent"}
      [] OTHER -> {}

\* lines 498-506: the steps the pipeline lists; RegisterAgentModel and
\* EvaluationFailed belong to the condition step (lines 472-473)
TopLevelSteps == StepNames \ {"RegisterAgentModel", "EvaluationFailed"}

\* job_arguments of the CreateKnowledgeBase step, lines 262-270: the
\* options on the command line of knowledge_base/main.py
KbJobOptions ==
    {"--agent-name", "--s3-uri", "--region", "--enable", "--max-tokens",
     "--overlap-percentage", "--ingestion-timeout"}

\* knowledge_base/main.py, lines 762-763: action="store_true"
StoreTrue(option, options) == option \in options

\* evaluate/main.py, line 275: success_rate, here in percent times total
\* so that the comparison stays in the integers
SuccessRate(m) == IF m.total > 0 THEN <<m.passed, m.total>> ELSE <<0, 1>>

\* a condition that is strict
ConditionGreaterThan(left, right) == left[1] * 100 > right * left[2]

\* lines 416-423: ConditionGreaterThanOrEqualTo(left=JsonGet(...
\* "metrics.success_rate"), right=EvaluationThreshold); left is a fraction
\* <<numerator, denominator>>, right a percentage
ConditionGreaterThanOrEqualTo(left, right) == left[1] * 100 >= right * left[2]

\* the execution goes on: a failed step fails the execution
Executing == \A s \in StepNames : steps[s] # "failed"

PipelineInit ==
    /\ ToolsUnused
    /\ MainUnused
    /\ WaitUnused
    /\ ChunkUnused
    /\ DeployUnused
    /\ PrepUnused
    /\ params \in [EvaluationThreshold : ThresholdChoices,
                    SkipKBIngestion : {"true", "false"},
                    EnableKnowledgeBase : {"true", "false"}]
    /\ steps = [s \in StepNames |-> "pending"]
    /\ finished = <<>>
    /\ evaluation = <<>>
    /\ kb_job = <<>>

outsidePipeline == <<mainVars, waitVars, chunkVars, deployVars, prepVars, toolVars>>

\* the service starts a step whose dependencies have succeeded
StartStep(s) ==
    /\ s \in TopLevelSteps \ {"CheckEvaluationResults"}
    /\ Executing
    /\ steps[s] = "pending"
    /\ \A d \in DependsOn(s) : steps[d] = "succeeded"
    /\ steps' = [steps EXCEPT ![s] = "executing"]
    /\ UNCHANGED <<params, finished, evaluation, kb_job>>
    /\ UNCHANGED outsidePipeline

\* a step ends with the exit code of its script
StepEnds(s, status) ==
    /\ steps[s] = "executing"
    /\ steps' = [steps EXCEPT ![s] = status]
    /\ finished' = Append(finished, s)

\* the processing jobs of lines 150-173, 196-221, 295-324 and 347-363
ProcessingStepEnds(s) ==
    /\ s \in {"SetupAndValidation", "CreateBedrockAgent", "DeployActionGroups",
               "PrepareAgent"}
    /\ \E status \in {"succeeded", "failed"} : StepEnds(s, status)
    /\ UNCHANGED <<params, evaluation, kb_job>>
    /\ UNCHANGED outsidePipeline

\* lines 244-272: the job runs knowledge_base/main.py with job_arguments;
\* the script starts the ingestion when enabled and not told to skip it
\* (knowledge_base/main.py, lines 791 and 954-958)
CreateKnowledgeBaseEnds ==
    /\ \E status \in {"succeeded", "failed"} :
          /\ StepEnds("CreateKnowledgeBase", status)
          /\ \E reached \in (IF status = "succeeded" THEN {TRUE} ELSE BOOLEAN) :
                kb_job' = <<[options |-> KbJobOptions,
                             skip_ingestion |-> StoreTrue("--skip-ingestion", KbJobOptions),
                             ingestion_started |->
                                 /\ reached
                                 /\ params.EnableKnowledgeBase = "true"
                                 /\ ~StoreTrue("--skip-ingestion", KbJobOptions)]>>
    /\ UNCHANGED <<params, evaluation>>
    /\ UNCHANGED outsidePipeline

\* lines 386-410: evaluate/main.py writes evaluation.json (lines 326-347),
\* or exits 1 when it finds no agent or alias (lines 299 and 308)
EvaluateAgentEnds ==
    /\ \E status \in {"succeeded", "failed"} :
          /\ StepEnds("EvaluateAgent", status)
          /\ IF status = "succeeded"
                THEN \E total \in 0..MaxTests, passed \in 0..MaxTests :
                        /\ passed <= total
                        /\ evaluation' = <<[passed |-> passed, total |-> total]>>
                ELSE UNCHANGED evaluation
    /\ UNCHANGED <<params, kb_job>>
    /\ UNCHANGED outsidePipeline

\* lines 469-475: the condition step chooses if_steps or else_steps
CheckEvaluationResults ==
    /\ Executing
    /\ steps["CheckEvaluationResults"] = "pending"
    /\ \A d \in DependsOn("CheckEvaluationResults") : steps[d] = "succeeded"
    /\ LET chosen == IF ConditionGreaterThanOrEqualTo(SuccessRate(evaluation[1]),
                                                     params.EvaluationThreshold)
                        THEN "RegisterAgentModel" ELSE "EvaluationFailed"
       IN  steps' = [steps EXCEPT !["CheckEvaluationResults"] = "succeeded",
                                  ![chosen] = "executing"]
    /\ finished' = Append(finished, "CheckEvaluationResults")
    /\ UNCHANGED <<params, evaluation, kb_job>>
    /\ UNCHANGED outsidePipeline

\* lines 439-456: register/main.py
RegisterAgentModelEnds ==
    /\ \E status \in {"succeeded", "failed"} : StepEnds("RegisterAgentModel", status)
    /\ UNCHANGED <<params, evaluation, kb_job>>
    /\ UNCHANGED outsidePipeline

\* lines 461-464: the FailStep fails the execution
EvaluationFailed ==
    /\ StepEnds("EvaluationFailed", "failed")
    /\ UNCHANGED <<params, evaluation, kb_job>>
    /\ UNCHANGED outsidePipeline

PipelineNext ==
    \/ \E s \in StepNames : StartStep(s)
    \/ \E s \in StepNames : ProcessingStepEnds(s)
    \/ CreateKnowledgeBaseEnds
    \/ EvaluateAgentEnds
    \/ CheckEvaluationResults
    \/ RegisterAgentModelEnds
    \/ EvaluationFailed

PipelineSpec == PipelineInit /\ [][PipelineNext]_vars

\* ------------------------------------------------------------------------
\* The deployment stack (model_deploy/deploy_agent/deploy_agent_stack.py):
\* the EventBridge rule and the Lambda it targets
\* ------------------------------------------------------------------------

\* largest number of events on the bus at a time
MaxBusEvents == 2

ApprovalStatuses == {"PendingManualApproval", "Approved", "Rejected"}

\* the event SageMaker emits when a model package changes state
PackageEvent(p, status) ==
    [source |-> "aws.sagemaker",
     detail_type |-> "SageMaker Model Package State Change",
     detail |-> [ModelPackageArn |-> p, ModelApprovalStatus |-> status]]

\* events of other origins that name an approved package
OtherEvents ==
    {[PackageEvent(p, "Approved") EXCEPT !.source = "custom.registry"] : p \in Packages}
        \cup {[PackageEvent(p, "Approved")
                  EXCEPT !.detail_type = "SageMaker Model Package Group State Change"] :
                  p \in Packages}

\* a pattern that reads source and detail-type only
PatternWithoutDetail(e) ==
    /\ e.source \in {"aws.sagemaker"}
    /\ e.detail_type \in {"SageMaker Model Package State Change"}

\* _create_approval_event_rule, lines 429-435: the event pattern
EventPatternMatches(e) ==
    /\ e.source \in {"aws.sagemaker"}
    /\ e.detail_type \in {"SageMaker Model Package State Change"}
    /\ e.detail.ModelApprovalStatus \in {"Approved"}

\* handler, line 365: the alias of the target environment
TargetAlias == "prod"

\* what the calls of the handler can do: every call answers ("deployed"),
\* describe_model_package raises, the metadata has no agent_id (line 343),
\* get_agent_alias raises (line 356), or the alias calls raise (lines 367-393)
HandlerCourses ==
    {"deployed", "describe_raises", "no_agent_id", "staging_raises", "alias_raises"}

\* handler, lines 325-415: the statusCode returned
StatusCode(course) ==
    CASE course = "deployed" -> "200"
      [] course = "no_agent_id" -> "400"
      [] OTHER -> "500"

DeployInit ==
    /\ ToolsUnused
    /\ MainUnused
    /\ WaitUnused
    /\ ChunkUnused
    /\ PipeUnused
    /\ PrepUnused
    /\ approval = [p \in Packages |->
                      [status |-> "PendingManualApproval", was_approved |-> FALSE]]
    /\ bus = {}
    /\ invocations = {}
    /\ aliases \in {{}, {[name |-> TargetAlias, package |-> "older"]}}
    /\ responses = [p \in Packages |-> "none"]

outsideDeploy == <<mainVars, waitVars, chunkVars, pipeVars, prepVars, toolVars>>

\* someone changes the approval status of a model package (register/main.py
\* registers with --approval-status, a reviewer approves or rejects) and
\* SageMaker emits the state change
UpdateModelPackage(p, status) ==
    /\ Cardinality(bus) < MaxBusEvents
    /\ approval[p].status # status
    /\ approval' = [approval EXCEPT ![p] =
                        [status |-> status,
                         was_approved |-> @.was_approved \/ status = "Approved"]]
    /\ bus' = bus \cup {PackageEvent(p, status)}
    /\ UNCHANGED <<invocations, aliases, responses>>
    /\ UNCHANGED outsideDeploy

\* another event reaches the bus
PutOtherEvent(e) ==
    /\ Cardinality(bus) < MaxBusEvents
    /\ e \in OtherEvents
    /\ bus' = bus \cup {e}
    /\ UNCHANGED <<approval, invocations, aliases, responses>>
    /\ UNCHANGED outsideDeploy

\* lines 418-440: the rule invokes its target for an event that matches
ApprovalRule(e) ==
    /\ e \in bus
    /\ bus' = bus \ {e}
    /\ invocations' = IF EventPatternMatches(e) THEN invocations \cup {e} ELSE invocations
    /\ UNCHANGED <<approval, aliases, responses>>
    /\ UNCHANGED outsideDeploy

\* handler, lines 325-415
Handler(e) ==
    /\ e \in invocations
    /\ invocations' = invocations \ {e}
    /\ \E course \in HandlerCourses :
          /\ responses' = [responses EXCEPT ![e.detail.ModelPackageArn] = StatusCode(course)]
          /\ aliases' = IF course = "deployed"
                           THEN {[name |-> TargetAlias,
                                  package |-> e.detail.ModelPackageArn]}
                           ELSE aliases
    /\ UNCHANGED <<approval, bus>>
    /\ UNCHANGED outsideDeploy

DeployNext ==
    \/ \E p \in Packages, status \in ApprovalStatuses : UpdateModelPackage(p, status)
    \/ \E e \in OtherEvents : PutOtherEvent(e)
    \/ \E e \in bus : ApprovalRule(e)
    \/ \E e \in invocations : Handler(e)

DeploySpec == DeployInit /\ [][DeployNext]_vars

\* ------------------------------------------------------------------------
\* The prepare step (source_scripts/prepare_agent/main.py)
\* ------------------------------------------------------------------------

\* iterations of the wait loops: range(60) at line 54, range(30) at line 117
PreparePollAttempts == 3
AliasPollAttempts == 2

\* agentStatus values get_agent can report
AgentStatuses == {"PREPARING", "NOT_PREPARED", "PREPARED", "FAILED", "DELETING"}

\* agentAliasStatus values get_agent_alias can report
AliasStatuses == {"CREATING", "PREPARED", "FAILED"}

\* main, lines 148-155
InitialPrepareOutput ==
    [agent_id |-> "None", agent_version |-> "None", alias_id |-> "None",
     status |-> "unknown", error |-> <<>>]

AgentNotFound == PlainException(<<"Agent not found">>)
PreparationFailed(status) ==
    PlainException(<<"Agent preparation failed with status:", status>>)
PreparationTimedOut == TimeoutErrorOf(<<"Agent preparation timed out">>)
AliasFailed == PlainException(<<"Alias creation failed">>)

\* a loop that polls once more before it gives up
PreparePollStepOneMore(status, n) ==
    CASE status = "PREPARED" -> "return"
      [] status \in {"FAILED", "DELETING"} -> "raise"
      [] n >= PreparePollAttempts -> "timeout"
      [] OTHER -> "sleep"

\* prepare_agent, lines 54-67: one iteration of the loop, n iterations done
PreparePollStep(status, n) ==
    CASE status = "PREPARED" -> "return"
      [] status \in {"FAILED", "DELETING"} -> "raise"
      [] n + 1 >= PreparePollAttempts -> "timeout"
      [] OTHER -> "sleep"

\* create_agent_alias, lines 117-131: the loop over the statuses the
\* service reports, n iterations done
RECURSIVE AliasWait(_, _)
AliasWait(statuses, n) ==
    IF n >= AliasPollAttempts \/ statuses = <<>>
       THEN "return"
       ELSE CASE Head(statuses) = "PREPARED" -> "return"
              [] Head(statuses) = "FAILED" -> "raise"
              [] OTHER -> AliasWait(Tail(statuses), n + 1)

PrepareInit ==
    /\ ToolsUnused
    /\ MainUnused
    /\ WaitUnused
    /\ ChunkUnused
    /\ PipeUnused
    /\ DeployUnused
    /\ p_pc = "get_agent"
    /\ p_output = InitialPrepareOutput
    /\ p_reads = <<>>
    /\ p_alias \in {"absent", "exists"}
    /\ p_file = <<>>
    /\ p_exit = "none"

outsidePrepare == <<mainVars, waitVars, chunkVars, pipeVars, deployVars, toolVars>>

\* main, lines 183-186: the handler records the error
PrepareFailed(e) ==
    /\ p_output' = [p_output EXCEPT !.status = "error", !.error = Str(e)]
    /\ p_pc' = "write"

\* main, lines 159-164, and get_agent_by_name, lines 26-34: a ClientError
\* of list_agents is logged and None is returned
GetAgentByName ==
    /\ p_pc = "get_agent"
    /\ \E answer \in {"found", "not_found", "ClientError", "OtherError"} :
          CASE answer = "found" ->
                  /\ p_output' = [p_output EXCEPT !.agent_id = "AGENT1"]
                  /\ p_pc' = "prepare"
            [] answer = "OtherError" -> PrepareFailed(OtherError)
            [] OTHER -> PrepareFailed(AgentNotFound)
    /\ UNCHANGED <<p_reads, p_alias, p_file, p_exit>>
    /\ UNCHANGED outsidePrepare

\* prepare_agent, line 49
PrepareAgentCall ==
    /\ p_pc = "prepare"
    /\ \E answer \in {"ok", "ConflictException"} :
          IF answer = "ok"
             THEN /\ p_pc' = "poll"
                  /\ UNCHANGED p_output
             ELSE PrepareFailed(ClientError(answer))
    /\ UNCHANGED <<p_reads, p_alias, p_file, p_exit>>
    /\ UNCHANGED outsidePrepare

\* prepare_agent, lines 54-67, and main, lines 167-168
PollAgent ==
    /\ p_pc = "poll"
    /\ \E status \in AgentStatuses :
          /\ p_reads' = Append(p_reads, status)
          /\ CASE PreparePollStep(status, Len(p_reads)) = "return" ->
                      /\ p_output' = [p_output EXCEPT !.agent_version = "DRAFT"]
                      /\ p_pc' = "alias"
                [] PreparePollStep(status, Len(p_reads)) = "raise" ->
                      PrepareFailed(PreparationFailed(status))
                [] PreparePollStep(status, Len(p_reads)) = "timeout" ->
                      PrepareFailed(PreparationTimedOut)
                [] OTHER -> UNCHANGED <<p_output, p_pc>>
    /\ UNCHANGED <<p_alias, p_file, p_exit>>
    /\ UNCHANGED outsidePrepare

\* create_agent_alias, lines 89-131, and main, lines 171-177: an existing
\* alias is updated; an exception of the lookup or of the update is logged
\* and the alias is created, which the service refuses when it exists
CreateAgentAlias ==
    /\ p_pc = "alias"
    /\ \E lookup \in {"ok", "raises"}, create \in {"ok", "AccessDeniedException"},
          statuses \in [1..AliasPollAttempts -> AliasStatuses] :
          CASE lookup = "ok" /\ p_alias = "exists" ->
                  /\ p_output' = [p_output EXCEPT !.alias_id = "ALIAS1",
                                                  !.status = "prepared"]
                  /\ p_pc' = "write"
                  /\ UNCHANGED p_alias
            [] lookup = "raises" /\ p_alias = "exists" ->
                  /\ PrepareFailed(ClientError("ConflictException"))
                  /\ UNCHANGED p_alias
            [] p_alias # "exists" /\ create # "ok" ->
                  /\ PrepareFailed(ClientError(create))
                  /\ UNCHANGED p_alias
            [] OTHER ->
                  /\ p_alias' = "exists"
                  /\ IF AliasWait(statuses, 0) = "raise"
                        THEN PrepareFailed(AliasFailed)
                        ELSE /\ p_output' = [p_output EXCEPT !.alias_id = "ALIAS1",
                                                             !.status = "prepared"]
                             /\ p_pc' = "write"
    /\ UNCHANGED <<p_reads, p_file, p_exit>>
    /\ UNCHANGED outsidePrepare

\* main, lines 188-194: prepare_output.json
WritePrepareOutput ==
    /\ p_pc = "write"
    /\ p_file' = <<p_output>>
    /\ p_pc' = "exit"
    /\ UNCHANGED <<p_output, p_reads, p_alias, p_exit>>
    /\ UNCHANGED outsidePrepare

\* main, lines 201-202
PrepareExit ==
    /\ p_pc = "exit"
    /\ p_exit' = IF p_output.status = "error" THEN "1" ELSE "0"
    /\ p_pc' = "ended"
    /\ UNCHANGED <<p_output, p_reads, p_alias, p_file>>
    /\ UNCHANGED outsidePrepare

PrepareNext ==
    \/ GetAgentByName
    \/ PrepareAgentCall
    \/ PollAgent
    \/ CreateAgentAlias
    \/ WritePrepareOutput
    \/ PrepareExit

\* the interpreter runs main on, and the service answers every call
PrepareSpec == PrepareInit /\ [][PrepareNext]_vars /\ WF_vars(PrepareNext)

\* ------------------------------------------------------------------------
\* AgentDeployer (model_deploy/deploy_agent.py): deploy and the methods it
\* calls, and get_latest_version
\* ------------------------------------------------------------------------

\* iterations the loop of wait_for_alias_ready has time for (a lookup and a
\* sleep of 10 seconds each, timeout_seconds = 300 in the source)
AliasReadyAttempts == 3

\* longest listing list_agent_versions returns
MaxVersions == 3

\* agent versions, as strings of characters
Draft == <<"D", "R", "A", "F", "T">>
NumberedVersions == {<<"2">>, <<"9">>, <<"1", "0">>}
VersionListings ==
    UNION {[1..n -> NumberedVersions \cup {Draft}] : n \in 0..MaxVersions}

\* int() of one character
DigitValue(c) ==
    CASE c = "0" -> 0
      [] c = "1" -> 1
      [] c = "2" -> 2
      [] c = "9" -> 9

\* int(v['agentVersion'])
RECURSIVE VersionNumber(_)
VersionNumber(v) ==
    IF Len(v) = 1
       THEN DigitValue(v[1])
       ELSE 10 * VersionNumber(SubSeq(v, 1, Len(v) - 1)) + DigitValue(v[Len(v)])

\* the listing left as it came
Unsorted(versions) == versions

\* where list.sort puts v in a list sorted already: behind the entries whose
\* key is not smaller (the sort is stable, reverse=True)
RECURSIVE InsertDescending(_, _)
InsertDescending(v, sorted) ==
    IF sorted = <<>>
       THEN <<v>>
       ELSE IF VersionNumber(Head(sorted)) >= VersionNumber(v)
               THEN <<Head(sorted)>> \o InsertDescending(v, Tail(sorted))
               ELSE <<v>> \o sorted

\* numbered_versions.sort(key=lambda v: int(v['agentVersion']), reverse=True)
RECURSIVE SortDescending(_)
SortDescending(versions) ==
    IF versions = <<>>
       THEN <<>>
       ELSE InsertDescending(versions[Len(versions)],
                             SortDescending(SubSeq(versions, 1, Len(versions) - 1)))

\* get_latest_version, lines 168-186, of the listing the service returned
get_latest_version(versions) ==
    LET numbered_versions == SelectSeq(versions, LAMBDA v : v # Draft)
    IN  IF numbered_versions = <<>>
           THEN Draft
           ELSE SortDescending(numbered_versions)[1]

\* routingConfiguration of the source alias
Routings ==
    {<<>>, <<[agentVersion |-> <<"2">>]>>,
     <<[agentVersion |-> <<"1", "0">>], [agentVersion |-> <<"9">>]>>}

\* what get_alias returns for the source alias: None (<<>>) or the alias
SourceAliases == {<<>>} \cup {<<[routingConfiguration |-> r]>> : r \in Routings}

\* the last entry of a routing configuration
LastRoutingEntry(routing) == routing[Len(routing)].agentVersion

\* deploy, line 218: routing[0].get('agentVersion')
FirstRoutingEntry(routing) == routing[1].agentVersion

\* what a lookup of the wait loop returns: None, or the alias in a status
AliasLookups == {"None", "CREATING", "PREPARED", "FAILED"}

\* reading a local that was never assigned
UnboundLocalError(name) ==
    [type |-> "UnboundLocalError", code |-> "none", msg |-> <<name>>]

AgentDeployerInit ==
    /\ MainUnused
    /\ WaitUnused
    /\ ChunkUnused
    /\ PipeUnused
    /\ DeployUnused
    /\ PrepUnused
    /\ EvalUnused
    /\ ActionsUnused
    /\ LambdaUnused
    /\ ad_pc = "idle"
    /\ ad_versions = <<>>
    /\ ad_latest = <<>>
    /\ ad_source = <<>>
    /\ ad_version = <<>>
    /\ ad_requests = <<>>
    /\ ad_reads = <<>>
    /\ ad_status = <<>>
    /\ ad_ready = <<>>
    /\ ad_error = NoError
    /\ ad_return = <<>>

outsideAgentDeployer ==
    <<mainVars, waitVars, chunkVars, pipeVars, deployVars, prepVars,
      evalVars, actionVars, lambdaVars>>

\* a call of get_latest_version, lines 159-186
GetLatestVersion ==
    /\ ad_pc = "idle"
    /\ \E versions \in VersionListings :
          /\ ad_versions' = versions
          /\ ad_latest' = <<get_latest_version(versions)>>
    /\ UNCHANGED <<ad_pc, ad_source, ad_version, ad_requests, ad_reads, ad_status,
                   ad_ready, ad_error, ad_return>>
    /\ UNCHANGED outsideAgentDeployer

\* deploy, lines 204-219: the source alias and its version
Deploy ==
    /\ ad_pc = "idle"
    /\ \E source \in SourceAliases :
          /\ ad_source' = source
          /\ IF source = <<>>
                THEN /\ ad_error' = PlainException(<<"Source alias not found">>)
                     /\ ad_pc' = "raised"
                     /\ UNCHANGED ad_version
                ELSE IF source[1].routingConfiguration = <<>>
                        THEN /\ ad_error' = PlainException(
                                    <<"Source alias has no routing configuration">>)
                             /\ ad_pc' = "raised"
                             /\ UNCHANGED ad_version
                        ELSE /\ ad_version' =
                                    <<FirstRoutingEntry(source[1].routingConfiguration)>>
                             /\ ad_pc' = "create_or_update_alias"
                             /\ UNCHANGED ad_error
    /\ UNCHANGED <<ad_versions, ad_latest, ad_requests, ad_reads, ad_status,
                   ad_ready, ad_return>>
    /\ UNCHANGED outsideAgentDeployer

\* create_or_update_alias, lines 96-124: get_alias_by_name finds the target
\* alias or none (or no listing, lines 74-76), and the one request is
\* answered or raises
CreateOrUpdateAlias ==
    /\ ad_pc = "create_or_update_alias"
    /\ \E existing \in BOOLEAN, answered \in BOOLEAN :
          /\ ad_requests' = Append(ad_requests,
                 [operation |-> IF existing THEN "update_agent_alias"
                                            ELSE "create_agent_alias",
                  agentVersion |-> ad_version[1]])
          /\ IF answered
                THEN ad_pc' = "wait_for_alias_ready" /\ UNCHANGED ad_error
                ELSE ad_pc' = "raised" /\ ad_error' = ClientError("ConflictException")
    /\ UNCHANGED <<ad_versions, ad_latest, ad_source, ad_version, ad_reads, ad_status,
                   ad_ready, ad_return>>
    /\ UNCHANGED outsideAgentDeployer

\* wait_for_alias_ready, lines 144-157: one iteration of the loop, or its end
\* when the time is over
WaitForAliasReady ==
    /\ ad_pc = "wait_for_alias_ready"
    /\ IF Len(ad_reads) >= AliasReadyAttempts
          THEN /\ ad_ready' = <<FALSE>>
               /\ ad_pc' = "waited"
               /\ UNCHANGED <<ad_reads, ad_status, ad_error>>
          ELSE \E alias \in AliasLookups :
                  /\ ad_reads' = Append(ad_reads, alias)
                  /\ ad_status' = IF alias = "None" THEN ad_status ELSE <<alias>>
                  /\ CASE alias = "PREPARED" ->
                             /\ ad_ready' = <<TRUE>>
                             /\ ad_pc' = "waited"
                             /\ UNCHANGED ad_error
                       [] alias = "FAILED" ->
                             /\ ad_ready' = <<FALSE>>
                             /\ ad_pc' = "waited"
                             /\ UNCHANGED ad_error
                       [] alias = "None" /\ ad_status = <<>> ->
                             \* line 154 reads status, which no line has assigned
                             /\ ad_error' = UnboundLocalError("status")
                             /\ ad_pc' = "raised"
                             /\ UNCHANGED ad_ready
                       [] OTHER ->
                             UNCHANGED <<ad_pc, ad_ready, ad_error>>
    /\ UNCHANGED <<ad_versions, ad_latest, ad_source, ad_version, ad_requests, ad_return>>
    /\ UNCHANGED outsideAgentDeployer

\* deploy, lines 230-239
DeployEnds ==
    /\ ad_pc = "waited"
    /\ IF ad_ready = <<TRUE>>
          THEN /\ ad_return' = <<[agent_version |-> ad_version[1], status |-> "deployed"]>>
               /\ ad_pc' = "returned"
               /\ UNCHANGED ad_error
          ELSE /\ ad_error' = PlainException(<<"Alias failed to become ready">>)
               /\ ad_pc' = "raised"
               /\ UNCHANGED ad_return
    /\ UNCHANGED <<ad_versions, ad_latest, ad_source, ad_version, ad_requests, ad_reads,
                   ad_status, ad_ready>>
    /\ UNCHANGED outsideAgentDeployer

AgentDeployerNext ==
    \/ GetLatestVersion
    \/ Deploy
    \/ CreateOrUpdateAlias
    \/ WaitForAliasReady
    \/ DeployEnds

AgentDeployerSpec == AgentDeployerInit /\ [][AgentDeployerNext]_vars

\* ------------------------------------------------------------------------
\* The evaluation step (model_build/source_scripts/evaluate/main.py):
\* run_evaluation and evaluate_response
\* ------------------------------------------------------------------------

\* largest number of test cases run_evaluation is given
MaxTestCases == 2

\* strings are sequences of characters; str.lower() of one character
LowerChar(c) ==
    CASE c = "A" -> "a"
      [] c = "B" -> "b"
      [] c = "T" -> "t"
      [] OTHER -> c

\* str.lower()
Lower(s) == [i \in 1..Len(s) |-> LowerChar(s[i])]

\* expected_keywords of a test case
KeywordLists ==
    {<<>>, <<<<"A">>>>, <<<<"A">>, <<"b">>>>, <<<<"a", "b">>, <<"b">>, <<"A">>>>}

\* a test case: "input" can be missing, test_case["input"] then raises KeyError
TestCases == [has_input : BOOLEAN, expected_keywords : KeywordLists]

TestCaseLists == UNION {[1..n -> TestCases] : n \in 0..MaxTestCases}

\* what invoke_agent returns: the text of the agent, or "" when the
\* invocation raised (lines 165-167)
Responses == {<<>>, <<"a">>, <<"B">>, <<"A", "b">>}

\* a ratio that has to exceed one half
MoreThanHalf(found, expected) == 2 * found > expected

\* evaluate_response, lines 201-202: found / expected >= 0.5
AtLeastHalf(found, expected) == 2 * found >= expected

\* evaluate_response, lines 180-204
evaluate_response(response, test_case) ==
    LET expected_keywords == test_case.expected_keywords
        response_lower == Lower(response)
        occurs(keyword) == Embeds(response_lower, Lower(keyword))
        keywords_found == SelectSeq(expected_keywords, occurs)
        keywords_missing == SelectSeq(expected_keywords, LAMBDA k : ~occurs(k))
    IN  [passed |-> IF expected_keywords = <<>>
                       THEN Len(response) > 0
                       ELSE AtLeastHalf(Len(keywords_found), Len(expected_keywords)),
         keywords_found |-> keywords_found,
         keywords_missing |-> keywords_missing,
         response_length |-> Len(response)]

\* run_evaluation, lines 250-260: the result of a test case is counted and
\* kept (response[:200] is the response, the responses here being short)
Evaluated(res, response, eval_result) ==
    [res EXCEPT !.passed = IF eval_result.passed THEN @ + 1 ELSE @,
                !.failed = IF eval_result.passed THEN @ ELSE @ + 1,
                !.details = Append(@,
                    [passed |-> eval_result.passed,
                     keywords_found |-> eval_result.keywords_found,
                     keywords_missing |-> eval_result.keywords_missing,
                     response_length |-> eval_result.response_length,
                     response_preview |-> response,
                     error |-> <<>>])]

\* a handler that keeps the error and counts nothing
ErroredUncounted(res, e) ==
    [res EXCEPT !.details = Append(@,
                    [passed |-> FALSE, keywords_found |-> <<>>,
                     keywords_missing |-> <<>>, response_length |-> 0,
                     response_preview |-> <<>>, error |-> Str(e)])]

\* run_evaluation, lines 262-269: the handler of the loop body (the entry
\* has the keys test_name, passed and error only; the other fields are empty)
Errored(res, e) ==
    [res EXCEPT !.failed = @ + 1,
                !.details = Append(@,
                    [passed |-> FALSE, keywords_found |-> <<>>,
                     keywords_missing |-> <<>>, response_length |-> 0,
                     response_preview |-> <<>>, error |-> Str(e)])]

\* test_case["input"] of a test case without that key
KeyError(key) == [type |-> "KeyError", code |-> "none", msg |-> <<key>>]

EvaluationInit ==
    /\ MainUnused
    /\ WaitUnused
    /\ ChunkUnused
    /\ PipeUnused
    /\ DeployUnused
    /\ PrepUnused
    /\ CliUnused
    /\ ActionsUnused
    /\ LambdaUnused
    /\ e_pc = "call"
    /\ test_cases \in TestCaseLists
    /\ e_i = 0
    /\ results = <<>>

outsideEvaluation ==
    <<mainVars, waitVars, chunkVars, pipeVars, deployVars, prepVars,
      cliVars, actionVars, lambdaVars>>

\* run_evaluation, lines 224-231
RunEvaluation ==
    /\ e_pc = "call"
    /\ results' = <<[total |-> Len(test_cases), passed |-> 0, failed |-> 0,
                     details |-> <<>>, success_rate |-> <<>>]>>
    /\ e_pc' = "loop"
    /\ UNCHANGED <<test_cases, e_i>>
    /\ UNCHANGED outsideEvaluation

\* run_evaluation, lines 233-272: one test case
RunTestCase ==
    /\ e_pc = "loop"
    /\ e_i < Len(test_cases)
    /\ LET test_case == test_cases[e_i + 1]
       IN  IF test_case.has_input
              THEN \E response \in Responses :
                      results' = <<Evaluated(results[1], response,
                                             evaluate_response(response, test_case))>>
              ELSE results' = <<Errored(results[1], KeyError("input"))>>
    /\ e_i' = e_i + 1
    /\ UNCHANGED <<e_pc, test_cases>>
    /\ UNCHANGED outsideEvaluation

\* run_evaluation, lines 274-277
EvaluationReturns ==
    /\ e_pc = "loop"
    /\ e_i = Len(test_cases)
    /\ results' = <<[results[1] EXCEPT !.success_rate = <<SuccessRate(results[1])>>]>>
    /\ e_pc' = "returned"
    /\ UNCHANGED <<test_cases, e_i>>
    /\ UNCHANGED outsideEvaluation

EvaluationNext ==
    \/ RunEvaluation
    \/ RunTestCase
    \/ EvaluationReturns

EvaluationSpec == EvaluationInit /\ [][EvaluationNext]_vars

\* ------------------------------------------------------------------------
\* The action-groups step (model_build/source_scripts/action_groups/main.py)
\* ------------------------------------------------------------------------

\* --enable as given on the command line
EnableChoices ==
    {<<"t", "r", "u", "e">>, <<"T", "r", "u", "e">>, <<"f", "a", "l", "s", "e">>}

\* number of paths of the API schema (load_api_schema, lines 273-286: the
\* minimal schema has none)
PathsCounts == {0, 2}

\* a step that is taken whatever --enable says
EnabledWhatever(enable) == TRUE

\* main, lines 335 and 341: args.enable.lower() == "true"
EnableIsTrue(enable) == Lower(enable) = <<"t", "r", "u", "e">>

\* the calls that create or change a resource
MutatingCalls ==
    {"iam.create_role", "iam.attach_role_policy", "lambda.update_function_code",
     "lambda.create_function", "lambda.add_permission",
     "update_agent_action_group", "create_agent_action_group"}

\* an error of the service that no handler of the helpers expects
AccessDenied == ClientError("AccessDeniedException")

ActionsInit ==
    /\ MainUnused
    /\ WaitUnused
    /\ ChunkUnused
    /\ PipeUnused
    /\ DeployUnused
    /\ PrepUnused
    /\ CliUnused
    /\ EvalUnused
    /\ LambdaUnused
    /\ g_pc = "start"
    /\ g_args \in {[enable |-> e] : e \in EnableChoices}
    /\ g_calls = <<>>
    /\ g_output = <<>>
    /\ g_file = <<>>
    /\ g_exit = "none"

outsideActions ==
    <<mainVars, waitVars, chunkVars, pipeVars, deployVars, prepVars,
      cliVars, evalVars, lambdaVars>>

\* main, lines 439-444: the handler records the error
ActionsFailed(e) ==
    /\ g_output' = <<[g_output[1] EXCEPT !.status = "error", !.error = Str(e)]>>
    /\ g_pc' = "write"

\* main, lines 334-351: the output dict, the gate on --enable and the first call
ActionsStart ==
    /\ g_pc = "start"
    /\ g_output' = <<[enabled |-> Lower(g_args.enable) = <<"t", "r", "u", "e">>,
                      action_groups |-> <<>>, lambda_functions |-> <<>>,
                      status |-> "skipped", error |-> <<>>, paths_count |-> <<>>]>>
    /\ IF EnableIsTrue(g_args.enable)
          THEN /\ g_pc' = "get_caller_identity"
          ELSE /\ g_pc' = "write"
    /\ UNCHANGED <<g_args, g_calls, g_file, g_exit>>
    /\ UNCHANGED outsideActions

\* main, line 351
ActionsGetCallerIdentity ==
    /\ g_pc = "get_caller_identity"
    /\ g_calls' = Append(g_calls, "sts.get_caller_identity")
    /\ \/ g_pc' = "get_agent" /\ UNCHANGED g_output
       \/ ActionsFailed(AccessDenied)
    /\ UNCHANGED <<g_args, g_file, g_exit>>
    /\ UNCHANGED outsideActions

\* main, lines 360-364, and get_agent_by_name, lines 191-199
ActionsGetAgent ==
    /\ g_pc = "get_agent"
    /\ g_calls' = Append(g_calls, "list_agents")
    /\ \/ g_pc' = "load_api_schema" /\ UNCHANGED g_output
       \/ ActionsFailed(PlainException(<<"Agent not found">>))
    /\ UNCHANGED <<g_args, g_file, g_exit>>
    /\ UNCHANGED outsideActions

\* main, lines 369-384: the schema, its paths and the Lambda package
LoadApiSchema ==
    /\ g_pc = "load_api_schema"
    /\ \E paths_count \in PathsCounts, lambda_zip \in BOOLEAN :
          LET counted == [g_output[1] EXCEPT !.paths_count = <<paths_count>>]
          IN  IF paths_count = 0
                 THEN /\ g_output' = <<[counted EXCEPT !.status = "skipped_no_paths"]>>
                      /\ g_pc' = "write"
                 ELSE IF lambda_zip
                         THEN /\ g_output' = <<counted>>
                              /\ g_pc' = "get_or_create_lambda_role"
                         ELSE /\ g_output' = <<[counted EXCEPT
                                                  !.status = "error",
                                                  !.error = <<"No Lambda zip found">>]>>
                              /\ g_pc' = "write"
    /\ UNCHANGED <<g_args, g_calls, g_file, g_exit>>
    /\ UNCHANGED outsideActions

\* main, line 390, and get_or_create_lambda_role, lines 35-75
GetOrCreateLambdaRole ==
    /\ g_pc = "get_or_create_lambda_role"
    /\ \/ /\ g_calls' = Append(g_calls, "iam.get_role")
          /\ \/ g_pc' = "deploy_lambda_function" /\ UNCHANGED g_output
             \/ ActionsFailed(AccessDenied)
       \/ /\ g_calls' = g_calls \o <<"iam.get_role", "iam.create_role">>
          /\ ActionsFailed(AccessDenied)
       \/ /\ g_calls' = g_calls \o
                 <<"iam.get_role", "iam.create_role", "iam.attach_role_policy">>
          /\ \/ g_pc' = "deploy_lambda_function" /\ UNCHANGED g_output
             \/ ActionsFailed(AccessDenied)
    /\ UNCHANGED <<g_args, g_file, g_exit>>
    /\ UNCHANGED outsideActions

\* main, lines 397-407, and deploy_lambda_function, lines 103-147
DeployLambdaFunction ==
    /\ g_pc = "deploy_lambda_function"
    /\ \E call \in {"lambda.update_function_code", "lambda.create_function"} :
          /\ g_calls' = g_calls \o <<"lambda.get_function", call>>
          /\ \/ /\ g_output' = <<[g_output[1] EXCEPT
                                    !.lambda_functions = Append(@, "actions")]>>
                /\ g_pc' = "add_bedrock_permission"
             \/ ActionsFailed(AccessDenied)
    /\ UNCHANGED <<g_args, g_file, g_exit>>
    /\ UNCHANGED outsideActions

\* main, line 412, and add_bedrock_permission, lines 160-175: a permission
\* that exists already is tolerated
AddBedrockPermission ==
    /\ g_pc = "add_bedrock_permission"
    /\ g_calls' = Append(g_calls, "lambda.add_permission")
    /\ \E e \in {NoError, ClientError("ResourceConflictException"), AccessDenied} :
          IF e = NoError \/ InStr("ResourceConflictException", e)
             THEN g_pc' = "create_or_update_action_group" /\ UNCHANGED g_output
             ELSE ActionsFailed(e)
    /\ UNCHANGED <<g_args, g_file, g_exit>>
    /\ UNCHANGED outsideActions

\* what list_agent_action_groups shows of the action group: it is listed,
\* it is absent, or the call raises
Listings == {"listed", "absent", "raises"}

\* create_or_update_action_group, lines 226-261: the calls it issues; an
\* update that raises is caught by the handler of line 246 like a listing
\* that raises, and the function goes on to line 250
ActionGroupCalls(listing, update_answered) ==
    <<"list_agent_action_groups">> \o
        (IF listing = "listed"
            THEN IF update_answered
                    THEN <<"update_agent_action_group">>
                    ELSE <<"update_agent_action_group", "create_agent_action_group">>
            ELSE <<"create_agent_action_group">>)

\* main, lines 417-431, and create_or_update_action_group: it returns when
\* its last call is answered
CreateOrUpdateActionGroup ==
    /\ g_pc = "create_or_update_action_group"
    /\ \E listing \in Listings, update_answered \in BOOLEAN, create_answered \in BOOLEAN :
          /\ g_calls' = g_calls \o ActionGroupCalls(listing, update_answered)
          /\ IF (listing = "listed" /\ update_answered) \/ create_answered
                THEN /\ g_output' = <<[g_output[1] EXCEPT
                                         !.action_groups = Append(@, "actions"),
                                         !.status = "success"]>>
                     /\ g_pc' = "write"
                ELSE ActionsFailed(ClientError("ConflictException"))
    /\ UNCHANGED <<g_args, g_file, g_exit>>
    /\ UNCHANGED outsideActions

\* main, lines 447-452
WriteActionsOutput ==
    /\ g_pc = "write"
    /\ g_file' = g_output
    /\ g_pc' = "exit"
    /\ UNCHANGED <<g_args, g_calls, g_output, g_exit>>
    /\ UNCHANGED outsideActions

\* main, lines 456-457
ActionsExit ==
    /\ g_pc = "exit"
    /\ g_exit' = IF g_output[1].status = "error" THEN "1" ELSE "0"
    /\ g_pc' = "ended"
    /\ UNCHANGED <<g_args, g_calls, g_output, g_file>>
    /\ UNCHANGED outsideActions

ActionsNext ==
    \/ ActionsStart
    \/ ActionsGetCallerIdentity
    \/ ActionsGetAgent
    \/ LoadApiSchema
    \/ GetOrCreateLambdaRole
    \/ DeployLambdaFunction
    \/ AddBedrockPermission
    \/ CreateOrUpdateActionGroup
    \/ WriteActionsOutput
    \/ ActionsExit

ActionsSpec == ActionsInit /\ [][ActionsNext]_vars

\* ------------------------------------------------------------------------
\* The deployment Lambda, call by call (deploy_agent_stack.py, the inline
\* code returned by _get_lambda_code): one invocation of handler
\* ------------------------------------------------------------------------

\* ENVIRONMENT of the function (handler, line 354)
Environments == {"prod", "staging2"}

\* the events handler is invoked with: detail has a ModelPackageArn or none
HandlerEvents == {[detail |-> [ModelPackageArn |-> arn]] : arn \in {<<>>, <<"package1">>}}

\* CustomerMetadataProperties of the model package
Metadatas == [agent_id : {<<>>, <<"AGENT1">>}, kb_name : {<<>>, <<"kb">>}]

\* the requests create_knowledge_base (lines 202-287) and create_data_source
\* (lines 290-322) can have issued when they return or raise
KnowledgeBaseRequests ==
    {<<>>, <<"create_knowledge_base">>,
     <<"create_knowledge_base", "create_data_source">>,
     <<"create_knowledge_base", "create_data_source", "start_ingestion_job">>}

\* a request of the handler, as it is kept in h_calls
Request(operation, alias_name, agent_version) ==
    [operation |-> operation, agentAliasName |-> alias_name,
     agentVersion |-> agent_version]

\* handler, lines 367-368: routing[0]["agentVersion"] if routing else "1"
StagingVersion(routing) ==
    IF routing # <<>> THEN routing[1].agentVersion ELSE <<"1">>

\* handler, line 371
AliasName(environment) == IF environment = "prod" THEN "prod" ELSE environment

\* handler, lines 413-415: an exception becomes the response
Response500(e) == [statusCode |-> 500, body |-> Str(e)]

HandlerInit ==
    /\ MainUnused
    /\ WaitUnused
    /\ ChunkUnused
    /\ PipeUnused
    /\ DeployUnused
    /\ PrepUnused
    /\ CliUnused
    /\ EvalUnused
    /\ ActionsUnused
    /\ h_pc = "start"
    /\ h_event \in HandlerEvents
    /\ h_metadata = <<>>
    /\ h_environment \in Environments
    /\ h_staging = <<>>
    /\ h_calls = <<>>
    /\ h_version = <<>>
    /\ h_response = <<>>

outsideHandler ==
    <<mainVars, waitVars, chunkVars, pipeVars, deployVars, prepVars,
      cliVars, evalVars, actionVars>>

\* handler, lines 331-349: the event, the model package and its metadata
DescribeModelPackage ==
    /\ h_pc = "start"
    /\ IF h_event.detail.ModelPackageArn = <<>>
          THEN /\ h_response' = <<[statusCode |-> 400, body |-> <<"Missing ModelPackageArn">>]>>
               /\ h_pc' = "returned"
               /\ UNCHANGED h_metadata
          ELSE \/ /\ h_response' = <<Response500(AccessDenied)>>
                  /\ h_pc' = "returned"
                  /\ UNCHANGED h_metadata
               \/ \E metadata \in Metadatas :
                     /\ h_metadata' = <<metadata>>
                     /\ IF metadata.agent_id = <<>>
                           THEN /\ h_response' = <<[statusCode |-> 400,
                                                    body |-> <<"Missing agent_id">>]>>
                                /\ h_pc' = "returned"
                           ELSE /\ h_pc' = IF metadata.kb_name # <<>>
                                              THEN "create_knowledge_base"
                                              ELSE "get_agent_alias"
                                /\ UNCHANGED h_response
    /\ UNCHANGED <<h_event, h_environment, h_staging, h_calls, h_version>>
    /\ UNCHANGED outsideHandler

\* handler, lines 357-359, and create_knowledge_base: it returns (a
\* ClientError is caught, lines 226 and 285) or an exception that is no
\* ClientError escapes it
HandlerCreateKnowledgeBase ==
    /\ h_pc = "create_knowledge_base"
    /\ \E requests \in KnowledgeBaseRequests :
          /\ h_calls' = h_calls \o
                 [i \in 1..Len(requests) |-> Request(requests[i], "", <<>>)]
          /\ \/ h_pc' = "get_agent_alias" /\ UNCHANGED h_response
             \/ h_pc' = "returned" /\ h_response' = <<Response500(OtherError)>>
    /\ UNCHANGED <<h_event, h_metadata, h_environment, h_staging, h_version>>
    /\ UNCHANGED outsideHandler

\* handler, lines 362-368: the staging alias and the version it routes to
GetStagingAlias ==
    /\ h_pc = "get_agent_alias"
    /\ \/ /\ h_response' = <<Response500(ClientError("ResourceNotFoundException"))>>
          /\ h_pc' = "returned"
          /\ UNCHANGED <<h_staging, h_version>>
       \/ \E routing \in Routings :
             /\ h_staging' = <<[routingConfiguration |-> routing]>>
             /\ h_version' = <<StagingVersion(routing)>>
             /\ h_pc' = "alias"
             /\ UNCHANGED h_response
    /\ UNCHANGED <<h_event, h_metadata, h_environment, h_calls>>
    /\ UNCHANGED outsideHandler

\* handler, lines 371-411: the alias of the environment is updated when the
\* listing shows it and created otherwise
CreateOrUpdateEnvironmentAlias ==
    /\ h_pc = "alias"
    /\ h_pc' = "returned"
    /\ \/ /\ h_response' = <<Response500(AccessDenied)>>
          /\ UNCHANGED h_calls
       \/ \E existing \in BOOLEAN, answered \in BOOLEAN :
             /\ h_calls' = Append(h_calls,
                    Request(IF existing THEN "update_agent_alias"
                                        ELSE "create_agent_alias",
                            AliasName(h_environment), h_version[1]))
             /\ h_response' =
                    IF answered
                       THEN <<[statusCode |-> 200,
                               body |-> [agent_version |-> h_version[1],
                                         alias |-> AliasName(h_environment)]]>>
                       ELSE <<Response500(ClientError("ConflictException"))>>
    /\ UNCHANGED <<h_event, h_metadata, h_environment, h_staging, h_version>>
    /\ UNCHANGED outsideHandler

HandlerNext ==
    \/ DescribeModelPackage
    \/ HandlerCreateKnowledgeBase
    \/ GetStagingAlias
    \/ CreateOrUpdateEnvironmentAlias

HandlerSpec == HandlerInit /\ [][HandlerNext]_vars

\* ------------------------------------------------------------------------
\* Properties
\* ------------------------------------------------------------------------

\* positions of a run inside the try block of the primary backend
\* (main, lines 855-879)
PrimaryPcs ==
    {"get_bucket", "create_bucket", "get_index", "delete_index", "create_index",
     "create_kb", "poll_kb"}

\* positions of a run inside the fallback handler (main, lines 881-934)
FallbackPcs ==
    {"fb_get_collection", "fb_enc_policy", "fb_net_policy", "fb_access_policy",
     "fb_create_collection", "fb_poll_collection", "fb_put_index", "fb_create_kb",
     "fb_poll_kb"}

\* a and then b occur in t as contiguous blocks that do not overlap
EmbedsBoth(t, a, b) ==
    \E i \in 0..Len(t), j \in 0..Len(t) :
        /\ i + Len(a) <= j
        /\ j + Len(b) <= Len(t)
        /\ \A k \in 1..Len(a) : t[i + k] = a[k]
        /\ \A k \in 1..Len(b) : t[j + k] = b[k]

\* C1: when the ingestion job ends FAILED the orchestrator does not raise:
\* the run records the failure in the ingestion part of its result, goes on
\* to the agent association and completes.
C1_FailedIngestionIsRecorded ==
    \A r \in Runs :
        last_status[r] = "FAILED" =>
            /\ raised[r] = NoError
            /\ out[r].status # "error"
            /\ out[r].ingestion.status = "failed"
            /\ pc[r] \in {"list_agents", "associate", "done"}

\* C2: once the setup has succeeded (the knowledge base and its data source
\* are known), a run that ends has exited zero and written its result, also
\* when the ingestion timed out or failed or the association failed.
C2_ExitZeroAfterSetup ==
    \A r \in Runs :
        (Ended(r) /\ out[r].knowledge_base_id # NoId /\ out[r].data_source_id # 0) =>
            /\ pc[r] = "done"
            /\ raised[r] = NoError
            /\ Len(written[r]) = 1

\* C3, state part: the fallback is entered at most once, and at once when
\* the primary handler caught an error; a run that went through the fallback
\* and has a knowledge base reports OPENSEARCH_SERVERLESS; when the fallback
\* raised, the error of the run embeds the primary and then the fallback
\* message.
FallbackState(r) ==
    /\ calls[r]["ensure_opensearch_serverless_collection"] <= 1
    /\ (s3v_error[r] # NoError /\ pc[r] # "fb_get_collection") =>
           calls[r]["ensure_opensearch_serverless_collection"] = 1
    /\ (calls[r]["ensure_opensearch_serverless_collection"] = 1
           /\ out[r].knowledge_base_id # NoId) =>
           out[r].storage_type = "OPENSEARCH_SERVERLESS"
    /\ oss_error[r] # NoError =>
           /\ pc[r] = "crashed"
           /\ s3v_error[r] # NoError
           /\ out[r].status = "error"
           /\ out[r].error = Str(raised[r])
           /\ EmbedsBoth(Str(raised[r]), Str(s3v_error[r]), Str(oss_error[r]))

\* C3, step part: a step of the primary backend never ends the run; it goes
\* on, or hands the knowledge base to main, or enters the fallback with the
\* error it raised.
PrimaryStep(r) ==
    (pc[r] \in PrimaryPcs /\ pc'[r] # pc[r]) =>
        /\ pc'[r] \in PrimaryPcs \cup {"fb_get_collection", "create_ds"}
        /\ pc'[r] = "fb_get_collection" <=> s3v_error'[r] # NoError
        /\ pc'[r] = "create_ds" => out'[r].storage_type = "S3_VECTORS"

\* C3: if a step of the primary backend raises, the fallback is attempted
\* exactly once; if the fallback succeeds the result's storage_type is
\* OPENSEARCH_SERVERLESS; if the fallback raises too, the run fails with an
\* error that contains both the primary and the fallback error message.
C3_FallbackOnceWithBothErrors ==
    [][\A r \in Runs : PrimaryStep(r) /\ FallbackState(r)']_vars

\* C3 happens: one run failed on both backends with different messages and
\* the other run got its knowledge base from the fallback
C3_Witness ==
    \E r, q \in Runs :
        /\ pc[r] = "crashed"
        /\ oss_error[r] # NoError
        /\ Str(oss_error[r]) # Str(s3v_error[r])
        /\ calls[q]["ensure_opensearch_serverless_collection"] = 1
        /\ out[q].status = "created"
        /\ out[q].storage_type = "OPENSEARCH_SERVERLESS"

\* C4: a run that probes after a run that created the knowledge base has
\* ended finds that knowledge base: unless its lookup call raises out of the
\* run, it reports the same knowledge_base_id with status "existing", then
\* the same data_source_id: it goes from the probe to the listing and from
\* there to the ingestion, never onto the path that creates vector storage,
\* a knowledge base or a data source.
C4_SecondRunReuses ==
    [][\A q, r \in Runs :
          (q # r /\ pc[q] = "done" /\ out[q].status = "created") =>
              /\ (pc[r] = "probe_kb" /\ pc'[r] # "crashed") =>
                     /\ pc'[r] = "list_ds"
                     /\ out'[r].knowledge_base_id = out[q].knowledge_base_id
                     /\ out'[r].status = "existing"
              /\ (pc[r] = "list_ds" /\ pc'[r] # "crashed") =>
                     /\ pc'[r] = "ingestion_gate"
                     /\ out'[r].data_source_id = out[q].data_source_id]_vars

\* C5: a run whose create call of the primary backend met a conflict (the
\* other run created the resource first) treats it as success: it does not
\* end with status "error" and it reports the knowledge base of the name.
C5_ConflictIsSuccess ==
    \A r \in Runs :
        ( /\ s3v_error[r] = ClientError("ConflictException")
          /\ oss_error[r] \in {NoError, ClientError("ConflictException")} ) =>
            /\ out[r].status # "error"
            /\ Ended(r) => out[r].knowledge_base_id = KbId

\* C6: for every interleaving of the runs at most one data source is ever
\* created, and all runs that ended, and met no service error but a
\* conflict, report the same data_source_id.
C6_OneDataSource ==
    /\ \A r, q \in Runs :
          ( /\ Ended(r) /\ Ended(q)
            /\ args[r].enable /\ args[q].enable
            /\ raised[r] \in {NoError, ClientError("ConflictException")}
            /\ raised[q] \in {NoError, ClientError("ConflictException")} ) =>
              out[r].data_source_id = out[q].data_source_id
    /\ Cardinality({i \in 1..Len(dataSources) : dataSources[i].name = "derived"}) <= 1

\* C7: start_ingestion_job is only called while the knowledge base is
\* ACTIVE (it is never called for a knowledge base that is still CREATING)
\* and for a data source that exists.
C7_IngestionOnlyWhenActive ==
    [][\A r \in Runs :
          calls'[r]["start_ingestion_job"] > calls[r]["start_ingestion_job"] =>
              /\ kb.status = "ACTIVE"
              /\ \E i \in 1..Len(dataSources) : dataSources[i].id = out[r].data_source_id]_vars

\* C8: a failed lookup is never taken for NOT_FOUND: while the knowledge
\* base, the vector bucket or the vector index exists, no run leaves its
\* lookup on the path that creates it.
C8_LookupFailureIsNotAbsence ==
    [][\A r \in Runs :
          /\ (pc[r] = "probe_kb" /\ kb.status # "absent") => pc'[r] # "get_bucket"
          /\ (pc[r] = "get_bucket" /\ bucket) => pc'[r] # "create_bucket"
          /\ (pc[r] = "get_index" /\ index # "none") => pc'[r] # "create_index"]_vars

\* C9: when ensure_s3_vectors_storage found an existing index, the index is
\* gone when the call goes on from delete_index to create_index, and the
\* index it returns with is one created after that.
C9_ExistingIndexRecreated ==
    [][\A r \in Runs :
          /\ (pc[r] = "delete_index" /\ pc'[r] = "create_index") => index' = "none"
          /\ (pc[r] = "create_index" /\ pc'[r] = "create_kb" /\ index_exists[r]) =>
                 index' \notin {"none", "pre"}]_vars

\* C10: a wait_for_ingestion_job that raised TimeoutError has read a status
\* that is not FAILED: when every status the job reports is FAILED the wait
\* raises the failure error, whatever timeout_minutes is.
C10_FailedJobNeverTimesOut ==
    \A r \in Runs :
        raised[r].type = "TimeoutError" => last_status[r] \notin {"none", "FAILED"}

\* the last status a wait loop read
LastRead == statuses_read[Len(statuses_read)]

\* the reads of a wait loop that were neither COMPLETE nor FAILED
TransientReads ==
    {i \in 1..Len(statuses_read) : statuses_read[i] \notin {"COMPLETE", "FAILED"}}

\* C11: when the ingestion wait gives up because the status stayed at a
\* value that is neither the target nor terminal, it raises TimeoutError
\* and the text of that error carries the last status it read.
C11_TimeoutCarriesLastStatus ==
    ( /\ w_loop = "sync_documents_to_kb"
      /\ w_pc \in {"returned", "raised"}
      /\ statuses_read # <<>>
      /\ TransientReads = 1..Len(statuses_read) ) =>
        /\ w_pc = "raised"
        /\ wait_error.type = "TimeoutError"
        /\ InStr(LastRead, wait_error)

\* C12, the state part: one start_ingestion_job call; never more than
\* timeout_minutes * 6 polls; the wait goes on only while neither COMPLETE nor
\* FAILED was read and polls are left; it returns on the first COMPLETE,
\* raises an error that is no TimeoutError and embeds failureReasons on the
\* first FAILED, and raises TimeoutError when the polls ran out on neither.
SyncOutcome ==
    w_loop = "sync_documents_to_kb" =>
        /\ started <= 1
        /\ w_pc # "call" => started = 1
        /\ Len(statuses_read) <= w_timeout * 6
        /\ \A i \in 1..(Len(statuses_read) - 1) : i \in TransientReads
        /\ w_pc = "loop" =>
              /\ Len(statuses_read) < w_timeout * 6
              /\ TransientReads = 1..Len(statuses_read)
        /\ w_pc = "returned" =>
              /\ statuses_read # <<>> /\ LastRead = "COMPLETE"
              /\ wait_error = NoError
        /\ w_pc = "raised" =>
              \/ /\ statuses_read # <<>> /\ LastRead = "FAILED"
                 /\ wait_error.type # "TimeoutError"
                 /\ Embeds(Str(wait_error), FailureReasons)
              \/ /\ TransientReads = 1..Len(statuses_read)
                 /\ Len(statuses_read) = w_timeout * 6
                 /\ wait_error.type = "TimeoutError"

\* C12: sync_documents_to_kb issues exactly one start_ingestion_job call,
\* and the wait ends, for every sequence of statuses, after at most
\* timeout_minutes * 6 polls in exactly one of three ways: the job is
\* returned, the failure is raised, or TimeoutError is raised.
C12_WaitTerminatesThreeWays ==
    /\ []SyncOutcome
    /\ <>(w_pc \in {"returned", "raised"})

\* C12 happens: a wait of one minute ran out after six polls
C12_Witness ==
    /\ w_loop = "sync_documents_to_kb"
    /\ w_timeout = 1
    /\ w_pc = "raised"
    /\ wait_error.type = "TimeoutError"
    /\ Len(statuses_read) = 6
    /\ started = 1

\* C13: a wait loop whose first read is its target status (COMPLETE for the
\* ingestion, ACTIVE for the knowledge base) returns after that one status
\* call without a sleep.
C13_TargetAtFirstRead ==
    (statuses_read # <<>> /\ statuses_read[1] = TargetStatus(w_loop)) =>
        /\ w_pc = "returned"
        /\ Len(statuses_read) = 1
        /\ sleeps = 0
        /\ wait_error = NoError

\* C13 happens: the knowledge base was ACTIVE at the first poll
C13_Witness ==
    /\ w_loop = "create_knowledge_base"
    /\ statuses_read = <<"ACTIVE">>
    /\ w_pc = "returned"

\* C14: a status the ingestion loop does not know is transient: the loop
\* neither returns nor raises the failure on it, it sleeps one interval per
\* such read and polls again while polls are left, and a COMPLETE or FAILED
\* read after it ends the wait as it would have without it.
C14_UnknownStatusIsTransient ==
    ( /\ w_loop = "sync_documents_to_kb"
      /\ \E i \in 1..Len(statuses_read) : statuses_read[i] \notin KnownJobStatuses ) =>
        /\ sleeps = Cardinality(TransientReads)
        /\ LastRead \notin KnownJobStatuses =>
              \/ w_pc = "loop" /\ Len(statuses_read) < MaxAttempts(w_timeout)
              \/ /\ w_pc = "raised" /\ wait_error.type = "TimeoutError"
                 /\ Len(statuses_read) = MaxAttempts(w_timeout)
        /\ LastRead = "COMPLETE" => w_pc = "returned" /\ wait_error = NoError
        /\ LastRead = "FAILED" =>
              w_pc = "raised" /\ wait_error = IngestionFailed(FailureReasons)

\* C14 happens: an unknown status, then COMPLETE
C14_Witness ==
    /\ w_loop = "sync_documents_to_kb"
    /\ statuses_read = <<"STOPPED", "COMPLETE">>
    /\ w_pc = "returned"

\* a step of run r: every step of a run moves it or advances its loop
RunStep(r) == pc'[r] # pc[r] \/ attempt'[r] # attempt[r]

\* positions of a run once its knowledge base and data source are known
AfterSetupPcs ==
    {"ingestion_gate", "start_ingestion", "poll_ingestion", "list_agents",
     "associate", "done"}

\* positions of a run before that: probing, storage, knowledge base and
\* data source creation
SetupPcs ==
    {"probe_kb", "list_ds", "create_ds"} \cup PrimaryPcs \cup FallbackPcs

\* C15: when the knowledge base did not exist and the run created it on the
\* primary backend, the run has status "created" and storage_type
\* "S3_VECTORS", has called create_knowledge_base once, create_data_source
\* once, and no operation of the fallback.
C15_PrimarySucceeds ==
    \A r \in Runs :
        ( /\ kb.by = r
          /\ kb.storage = "S3_VECTORS"
          /\ pc[r] \in AfterSetupPcs ) =>
            /\ out[r].status = "created"
            /\ out[r].storage_type = "S3_VECTORS"
            /\ out[r].knowledge_base_id = KbId
            /\ calls[r]["create_knowledge_base"] = 1
            /\ calls[r]["create_data_source"] = 1
            /\ calls[r]["ensure_opensearch_serverless_collection"] = 0

\* C15 happens: a run that created the knowledge base on S3 Vectors ended
C15_Witness ==
    \E r \in Runs :
        /\ pc[r] = "done"
        /\ kb.by = r
        /\ kb.storage = "S3_VECTORS"
        /\ out[r].status = "created"
        /\ Len(written[r]) = 1

\* the data sources that can head the listing before any run
OlderDataSources == {ds[1] : ds \in PreexistingDataSources \ {<<>>}}

\* C16: when the knowledge base existed with at least one data source, a
\* run that ends normally has status "existing", has not called
\* create_data_source, and reports the identifier of the first data source
\* of the listing.
C16_ExistingIsReused ==
    \A r \in Runs :
        ( /\ pc[r] = "done"
          /\ args[r].enable
          /\ kb.by = "pre"
          /\ dataSources # <<>>
          /\ dataSources[1] \in OlderDataSources ) =>
            /\ out[r].status = "existing"
            /\ out[r].knowledge_base_id = KbId
            /\ calls[r]["create_data_source"] = 0
            /\ calls[r]["create_knowledge_base"] = 0
            /\ out[r].data_source_id = dataSources[1].id

\* C16 happens: a run ended on a knowledge base whose first listed data
\* source is not the last one
C16_Witness ==
    \E r \in Runs :
        /\ pc[r] = "done"
        /\ kb.by = "pre"
        /\ Len(dataSources) = 2
        /\ out[r].status = "existing"
        /\ out[r].data_source_id = 2

\* C17: a run that found the knowledge base creates and deletes no bucket,
\* index, collection, policy or knowledge base; it calls create_data_source
\* only after an empty listing, and otherwise only starts the ingestion and
\* associates the agent.
C17_ExistingIsNotModified ==
    [][\A r \in Runs :
          (out[r].status = "existing" /\ RunStep(r)) =>
              /\ UNCHANGED <<kb, bucket, index, collection, policies, osIndex>>
              /\ pc'[r] \notin PrimaryPcs \cup FallbackPcs
              /\ calls'[r]["create_knowledge_base"] = calls[r]["create_knowledge_base"]
              /\ calls'[r]["ensure_opensearch_serverless_collection"] =
                     calls[r]["ensure_opensearch_serverless_collection"]
              /\ pc'[r] = "create_ds" => pc[r] = "list_ds" /\ dataSources = <<>>
              /\ dataSources' # dataSources => pc[r] = "create_ds"
              /\ associated' # associated => pc[r] = "associate"]_vars

\* C17 happens: a run that found the knowledge base without a data source
\* created one, ingested and associated the agent
C17_Witness ==
    \E r \in Runs :
        /\ pc[r] = "done"
        /\ out[r].status = "existing"
        /\ calls[r]["create_data_source"] = 1
        /\ calls[r]["start_ingestion_job"] = 1
        /\ out[r].agent_associated = "true"

\* C18: with --skip-ingestion no ingestion job is started or read, the
\* ingestion status stays "skipped", and the association is still attempted
\* before the run ends.
C18_SkipIngestion ==
    \A r \in Runs :
        args[r].skip_ingestion =>
            /\ calls[r]["start_ingestion_job"] = 0
            /\ last_status[r] = "none"
            /\ pc[r] \in {"list_agents", "associate", "done"}
            /\ out[r].ingestion = [status |-> "skipped", documents_indexed |-> 0]
            /\ pc[r] = "done" => calls[r]["list_agents"] = 1

\* C18 happens: a run with --skip-ingestion called the association
C18_Witness ==
    \E r \in Runs :
        /\ args[r].skip_ingestion
        /\ pc[r] = "done"
        /\ calls[r]["associate_agent_knowledge_base"] = 1

\* C19: no step of the association raises out of main or changes another
\* field of the output; agent_associated is "true" only when the associate
\* call took effect and "false" otherwise.
C19_AssociationIsNotFatal ==
    [][\A r \in Runs :
          (pc[r] \in {"list_agents", "associate"} /\ RunStep(r)) =>
              /\ pc'[r] \in {"associate", "done"}
              /\ raised'[r] = NoError
              /\ [out'[r] EXCEPT !.agent_associated = "unset"] =
                     [out[r] EXCEPT !.agent_associated = "unset"]
              /\ pc'[r] = "done" =>
                     /\ written'[r] = <<out'[r]>>
                     /\ out'[r].agent_associated =
                            IF pc[r] = "associate" /\ ~associated /\ associated'
                               THEN "true" ELSE "false"
              /\ pc'[r] # "done" => out'[r] = out[r]]_vars

\* C19 happens: the associate call failed and the run ended normally
C19_Witness ==
    \E r \in Runs :
        /\ pc[r] = "done"
        /\ calls[r]["associate_agent_knowledge_base"] = 1
        /\ out[r].agent_associated = "false"
        /\ out[r].status \in {"created", "existing"}
        /\ raised[r] = NoError

\* C20: an exception that leaves probing, storage, knowledge base or data
\* source creation sets status "error", records its string, is re-raised,
\* and nothing is started or associated afterwards.
C20_SetupErrorIsFatal ==
    [][\A r \in Runs :
          /\ (pc[r] \in SetupPcs /\ pc'[r] = "crashed") =>
                 /\ raised'[r] # NoError
                 /\ out'[r] = [out[r] EXCEPT !.status = "error",
                                             !.error = Str(raised'[r])]
                 /\ written'[r] = <<>>
                 /\ calls'[r]["start_ingestion_job"] = 0
                 /\ calls'[r]["list_agents"] = 0
                 /\ calls'[r]["associate_agent_knowledge_base"] = 0
          /\ pc[r] = "crashed" =>
                 /\ pc'[r] = "crashed"
                 /\ calls'[r] = calls[r]
                 /\ out'[r] = out[r]
                 /\ raised'[r] = raised[r]]_vars

\* C20 happens: the probe, the fallback and the data source creation each
\* ended a run
C20_Witness ==
    \E r \in Runs :
        /\ pc[r] = "crashed"
        /\ out[r].status = "error"
        /\ out[r].error = Str(raised[r])
        /\ calls[r]["create_data_source"] = 1
        /\ calls[r]["start_ingestion_job"] = 0

\* run r read the status FAILED in the wait loop of a create function
ObservedFailed(r) ==
    \/ s3v_error[r] = KbCreationFailed
    \/ oss_error[r] = KbCreationFailed

C25_ResultWrittenOnceAtEnd ==
    \A r \in Runs :
        /\ Len(written[r]) <= 1
        /\ Len(written[r]) = 1 <=> pc[r] = "done"
        /\ pc[r] = "done" => written[r][1] = out[r] /\ raised[r] = NoError
        /\ pc[r] = "crashed" => out[r].status = "error" /\ raised[r] # NoError
        /\ \A i \in 1..Len(written[r]) : written[r][i].status # "error"

\* C25 happens: one run wrote its record and another was ended by the
\* outer handler
C25_Witness ==
    \E r, q \in Runs :
        /\ pc[r] = "done"
        /\ Len(written[r]) = 1
        /\ out[r].enabled
        /\ pc[q] = "crashed"
        /\ out[q].status = "error"
        /\ written[q] = <<>>

\* C26: on the fallback path the index request is issued only when the
\* collection has been seen ACTIVE, whatever state the collection started in.
C26_IndexOnlyOnActiveCollection ==
    [][\A r \in Runs :
          (pc[r] # "fb_put_index" /\ pc'[r] = "fb_put_index") =>
              collection = "ACTIVE"]_vars

\* C27: on the fallback path create_knowledge_base is called only when the
\* index request created the index or found it existing.
C27_KnowledgeBaseOnlyOnIndex ==
    [][\A r \in Runs :
          (pc[r] = "fb_put_index" /\ pc'[r] = "fb_create_kb") => osIndex']_vars

\* positions inside ensure_opensearch_serverless_collection after the lookup
CollectionCreatePcs ==
    {"fb_enc_policy", "fb_net_policy", "fb_access_policy", "fb_create_collection"}

\* the position after each creation of ensure_opensearch_serverless_collection
AfterCreate(p) ==
    CASE p = "fb_enc_policy" -> "fb_net_policy"
      [] p = "fb_net_policy" -> "fb_access_policy"
      [] p = "fb_access_policy" -> "fb_create_collection"
      [] OTHER -> "fb_poll_collection"

\* C28: in ensure_opensearch_serverless_collection a ConflictException of a
\* policy or collection creation lets the function go on and any other
\* ClientError leaves it; the activation wait makes at most
\* CollectionPollAttempts polls and ends by returning the ACTIVE collection,
\* raising on FAILED, or raising the timeout.
C28_CollectionConflictsAndWait ==
    [][\A r \in Runs :
          /\ (pc[r] \in CollectionCreatePcs /\ RunStep(r)) =>
                 \/ /\ pc'[r] = AfterCreate(pc[r])
                    /\ raised'[r] = NoError
                 \/ /\ pc'[r] = "crashed"
                    /\ oss_error'[r].type = "ClientError"
                    /\ ~InStr("ConflictException", oss_error'[r])
          /\ (pc[r] = "fb_poll_collection" /\ RunStep(r)) =>
                 /\ attempt[r] < CollectionPollAttempts
                 /\ \/ /\ pc'[r] = "fb_put_index"
                       /\ collection = "ACTIVE"
                    \/ /\ pc'[r] = "crashed"
                       /\ \/ oss_error'[r] = CollectionFailed /\ collection = "FAILED"
                          \/ /\ oss_error'[r] = CollectionTimedOut
                             /\ attempt[r] + 1 = CollectionPollAttempts
                             /\ collection \notin {"ACTIVE", "FAILED"}
                          \/ oss_error'[r].type = "ClientError"
                    \/ /\ pc'[r] = "fb_poll_collection"
                       /\ attempt'[r] = attempt[r] + 1
                       /\ attempt'[r] < CollectionPollAttempts]_vars

\* C28 happens: both runs wait for one collection, so a creation of the
\* second met the ConflictException, and a wait ran out
C28_Witness ==
    /\ \E r \in Runs : pc[r] = "fb_poll_collection" /\ attempt[r] = CollectionPollAttempts - 1
    /\ \A r \in Runs : pc[r] = "fb_poll_collection"
    /\ policies = {"encryption", "network", "data"}

\* C22: every create_data_source request of main, at either call site,
\* carries the --max-tokens and --overlap-percentage of the command line;
\* 1024 and 20 are used only for an option that was not given.
C22_ChunkingPassedUnchanged ==
    c_pc = "done" =>
        /\ Len(c_request) = IF c_site = "existing_with_ds" THEN 0 ELSE 1
        /\ \A i \in 1..Len(c_request) :
              /\ c_request[i].chunkingStrategy = "FIXED_SIZE"
              /\ c_argv.max_tokens # <<>> =>
                     c_request[i].maxTokens = c_argv.max_tokens[1]
              /\ c_argv.max_tokens = <<>> =>
                     c_request[i].maxTokens = DefaultMaxTokens
              /\ c_argv.overlap_percentage # <<>> =>
                     c_request[i].overlapPercentage = c_argv.overlap_percentage[1]
              /\ c_argv.overlap_percentage = <<>> =>
                     c_request[i].overlapPercentage = DefaultOverlapPercentage

\* C22 happens: a data source was requested for an existing knowledge base
\* with --max-tokens 512 and no --overlap-percentage
C22_Witness ==
    /\ c_pc = "done"
    /\ c_site = "existing_empty"
    /\ c_argv = [max_tokens |-> <<512>>, overlap_percentage |-> <<>>]
    /\ c_request = <<ChunkingConfiguration(512, 20)>>

\* the six processing steps have ended, successfully and in their order
BuildCompleted ==
    /\ Len(finished) >= Len(ProcessingSteps)
    /\ SubSeq(finished, 1, Len(ProcessingSteps)) = ProcessingSteps
    /\ \A i \in 1..Len(ProcessingSteps) : steps[ProcessingSteps[i]] = "succeeded"

\* metrics.success_rate of evaluation.json is at least EvaluationThreshold
ThresholdMet ==
    /\ evaluation # <<>>
    /\ IF evaluation[1].total = 0
          THEN params.EvaluationThreshold <= 0
          ELSE evaluation[1].passed * 100 >=
                   params.EvaluationThreshold * evaluation[1].total

\* C23: RegisterAgentModel starts only after the six processing steps
\* ended successfully in their order and with success_rate at least the
\* threshold; otherwise EvaluationFailed is the step started and
\* RegisterAgentModel is not.
C23_RegisterOnlyAfterEvaluation ==
    /\ steps["RegisterAgentModel"] # "pending" =>
           /\ BuildCompleted
           /\ ThresholdMet
           /\ steps["EvaluationFailed"] = "pending"
    /\ steps["EvaluationFailed"] # "pending" =>
           /\ BuildCompleted
           /\ ~ThresholdMet
           /\ steps["RegisterAgentModel"] = "pending"
    /\ steps["CheckEvaluationResults"] = "succeeded" =>
           \/ steps["RegisterAgentModel"] # "pending"
           \/ steps["EvaluationFailed"] # "pending"

\* C23 happens: an evaluation exactly at the threshold was registered
C23_Witness ==
    /\ steps["RegisterAgentModel"] = "succeeded"
    /\ params.EvaluationThreshold = 80
    /\ evaluation = <<[passed |-> 4, total |-> 5]>>

\* C29: the CreateKnowledgeBase job starts the ingestion exactly when the
\* parameter SkipKBIngestion is "false".
C29_SkipParameterControlsIngestion ==
    ( /\ steps["CreateKnowledgeBase"] = "succeeded"
      /\ params.EnableKnowledgeBase = "true" ) =>
        (kb_job[1].ingestion_started <=> params.SkipKBIngestion = "false")

\* C24: the Lambda is invoked only with SageMaker model package state
\* changes whose ModelApprovalStatus is Approved, and the alias of the
\* target environment is created or updated only for a model package that
\* has been approved.
C24_DeployOnlyApproved ==
    /\ \A e \in invocations :
          /\ e.source = "aws.sagemaker"
          /\ e.detail_type = "SageMaker Model Package State Change"
          /\ e.detail.ModelApprovalStatus = "Approved"
          /\ approval[e.detail.ModelPackageArn].was_approved
    /\ \A a \in aliases :
          a.package \in Packages => approval[a.package].was_approved
    /\ \A p \in Packages :
          responses[p] # "none" => approval[p].was_approved

\* C24 happens: the alias was made for an approved package while a
\* rejected package and an event of another source left no trace
C24_Witness ==
    /\ aliases = {[name |-> TargetAlias, package |-> "package1"]}
    /\ responses = [p \in Packages |-> IF p = "package1" THEN "200" ELSE "none"]
    /\ approval["package2"].status = "Rejected"
    /\ bus = {}
    /\ invocations = {}

\* the last agentStatus the wait loop of prepare_agent read
LastAgentStatus == IF p_reads = <<>> THEN "none" ELSE p_reads[Len(p_reads)]

\* what holds of every state of the prepare step
PrepareOutcome ==
    /\ Len(p_reads) <= PreparePollAttempts
    /\ \A i \in 1..(Len(p_reads) - 1) : p_reads[i] \notin {"PREPARED", "FAILED", "DELETING"}
    /\ p_output.agent_version # "None" => LastAgentStatus = "PREPARED"
    /\ (p_pc # "poll" /\ LastAgentStatus \in {"FAILED", "DELETING"}) =>
           /\ p_output.status = "error"
           /\ p_output.error = Str(PreparationFailed(LastAgentStatus))
    /\ ( /\ p_pc # "poll"
         /\ LastAgentStatus \in {"PREPARING", "NOT_PREPARED"} ) =>
           /\ Len(p_reads) = PreparePollAttempts
           /\ p_output.status = "error"
           /\ p_output.error = Str(PreparationTimedOut)
    /\ p_output.alias_id # "None" => p_output.status = "prepared"
    /\ p_file # <<>> =>
           /\ p_file = <<p_output>>
           /\ p_output.status \in {"prepared", "error"}
    /\ p_pc = "ended" =>
           /\ p_file # <<>>
           /\ p_exit = IF p_output.status = "error" THEN "1" ELSE "0"
    /\ p_pc # "ended" => p_exit = "none"

\* C30: prepare_agent polls at most PreparePollAttempts times, returns only
\* on PREPARED, raises on FAILED or DELETING and raises TimeoutError when
\* the loop runs out; main ends in every run, having written
\* prepare_output.json with status "prepared" or "error", with an alias id
\* only when the status is "prepared", and exits non-zero exactly when the
\* status is "error".
C30_PrepareTerminatesAndReports ==
    /\ []PrepareOutcome
    /\ <>(p_pc = "ended")

\* C30 happens: the loop ran out on its last poll and main wrote the error
\* and exited 1
C30_Witness ==
    /\ p_pc = "ended"
    /\ Len(p_reads) = PreparePollAttempts
    /\ LastAgentStatus = "PREPARING"
    /\ p_file = <<[InitialPrepareOutput EXCEPT !.agent_id = "AGENT1",
                                               !.status = "error",
                                               !.error = Str(PreparationTimedOut)]>>
    /\ p_exit = "1"

\* the routing configuration of the source alias deploy read
SourceRouting == IF ad_source = <<>> THEN <<>> ELSE ad_source[1].routingConfiguration

\* C32: wait_for_alias_ready never raises and always returns a boolean,
\* whatever the alias lookups return (no alias included): once it has been
\* entered and left it has returned, True exactly when the last lookup read
\* PREPARED and False on FAILED or on timeout.
C32_WaitForAliasReadyAlwaysReturns ==
    (ad_reads # <<>> /\ ad_pc \in {"waited", "returned", "raised"}) =>
        /\ ad_ready # <<>>
        /\ ad_ready[1] = (ad_reads[Len(ad_reads)] = "PREPARED")

\* C33: when deploy returns, exactly one create or update alias request was
\* issued, routed to the agentVersion of the first routing entry of the
\* source alias, and the target alias was read PREPARED; when the source
\* alias is missing or has no routing configuration deploy raises and no
\* create or update alias request was issued.
C33_DeployPromotesSourceVersion ==
    /\ ad_pc = "returned" =>
          /\ Len(ad_requests) = 1
          /\ ad_requests[1].operation \in {"create_agent_alias", "update_agent_alias"}
          /\ ad_requests[1].agentVersion = SourceRouting[1].agentVersion
          /\ ad_return[1].agent_version = SourceRouting[1].agentVersion
          /\ ad_reads # <<>>
          /\ ad_reads[Len(ad_reads)] = "PREPARED"
    /\ (ad_pc # "idle" /\ SourceRouting = <<>>) =>
          /\ ad_pc = "raised"
          /\ ad_requests = <<>>

\* deploy returned after it promoted a source alias with two routing entries
\* by an update of the target alias
C33_Witness ==
    /\ ad_pc = "returned"
    /\ Len(SourceRouting) = 2
    /\ ad_requests[1].operation = "update_agent_alias"

\* C34: get_latest_version returns DRAFT when the listing has no numbered
\* version, and otherwise a numbered version of the listing whose integer
\* value is the largest, whatever the order of the listing.
C34_LatestVersionIsMaximum ==
    ad_latest # <<>> =>
        LET numbered == {ad_versions[i] : i \in DOMAIN ad_versions} \ {Draft}
        IN  /\ numbered = {} => ad_latest[1] = Draft
            /\ numbered # {} =>
                  /\ ad_latest[1] \in numbered
                  /\ \A v \in numbered : VersionNumber(v) <= VersionNumber(ad_latest[1])
            /\ \A p \in Permutations(DOMAIN ad_versions) :
                  get_latest_version([i \in DOMAIN ad_versions |-> ad_versions[p[i]]])
                      = ad_latest[1]

\* version 10 was returned for a listing that has it last, behind 9 and DRAFT
C34_Witness ==
    /\ ad_versions = <<<<"9">>, Draft, <<"1", "0">>>>
    /\ ad_latest = <<<<"1", "0">>>>

\* the keyword occurs in the response when case is ignored
OccursIgnoringCase(keyword, response) ==
    \E i \in 0..(Len(response) - Len(keyword)) :
        \A j \in 1..Len(keyword) : LowerChar(response[i + j]) = LowerChar(keyword[j])

\* the elements of a sequence
Range(s) == {s[i] : i \in DOMAIN s}

\* C35: after each processed test case passed + failed equals the number of
\* cases processed and the length of details, whatever passed, failed or
\* raised; when run_evaluation returns passed + failed = total, and
\* success_rate is passed/total, 0 when there is no test case.
C35_CountersConsistent ==
    e_pc \in {"loop", "returned"} =>
        LET res == results[1]
        IN  /\ res.total = Len(test_cases)
            /\ res.passed + res.failed = e_i
            /\ Len(res.details) = e_i
            /\ res.passed = Cardinality({i \in DOMAIN res.details : res.details[i].passed})
            /\ e_pc = "loop" => res.success_rate = <<>>
            /\ e_pc = "returned" =>
                  /\ res.passed + res.failed = res.total
                  /\ res.success_rate =
                        IF res.total = 0 THEN <<<<0, 1>>>>
                                         ELSE <<<<res.passed, res.total>>>>

\* run_evaluation returned for two test cases, one that passed and one
\* whose processing raised
C35_Witness ==
    /\ e_pc = "returned"
    /\ results[1].total = 2
    /\ results[1].passed = 1
    /\ \E i \in DOMAIN results[1].details : results[1].details[i].error # <<>>

CallsOf(operation) ==
    Cardinality({i \in DOMAIN g_calls : g_calls[i] = operation})

\* C31: create-or-update never duplicates: when the listing shows the
\* action group (an update call is issued for it), exactly one update call
\* and no create call is issued, also when the update call fails.
C31_UpdateWithoutCreate ==
    CallsOf("update_agent_action_group") > 0 =>
        /\ CallsOf("update_agent_action_group") = 1
        /\ CallsOf("create_agent_action_group") = 0

\* the output of the step, once main has built it
ActionsStatus == IF g_output = <<>> THEN "none" ELSE g_output[1].status

AliasRequests ==
    SelectSeq(h_calls, LAMBDA c : c.operation \in {"update_agent_alias", "create_agent_alias"})

\* C38: the handler returns 400 without a Bedrock create or update request
\* when the event has no ModelPackageArn or the metadata no agent_id; on a
\* 200 response it has issued exactly one update_agent_alias or
\* create_agent_alias for the alias of the environment, routed to the
\* version taken from the staging alias; it always returns a response
\* (400, 200, or 500 for an exception).
C38_HandlerResponses ==
    h_pc = "returned" =>
        /\ h_response # <<>>
        /\ h_response[1].statusCode \in {200, 400, 500}
        /\ (h_event.detail.ModelPackageArn = <<>>
               \/ (h_metadata # <<>> /\ h_metadata[1].agent_id = <<>>)) =>
              /\ h_response[1].statusCode = 400
              /\ h_calls = <<>>
        /\ h_response[1].statusCode = 400 => h_calls = <<>>
        /\ h_response[1].statusCode = 200 =>
              /\ Len(AliasRequests) = 1
              /\ AliasRequests[1].agentAliasName = h_environment
              /\ h_staging[1].routingConfiguration # <<>>
              /\ AliasRequests[1].agentVersion =
                     h_staging[1].routingConfiguration[1].agentVersion

====
